---- MODULE Spec2Model ----
(***************************************************************************)
(* A model of the photopuzzler build tooling: the two-tier BuildCache of   *)
(* cache.js (memory LRU in front of one JSON file per key), its key        *)
(* derivation, and the build pipelines of build.js.                        *)
(*                                                                         *)
(* Every asynchronous method of BuildCache is cut at its awaits: one       *)
(* action per synchronous stretch of code, so that a caller's calls and    *)
(* the loadCache() the constructor starts without awaiting it interleave   *)
(* exactly where the event loop lets them.                                 *)
(***************************************************************************)
EXTENDS Integers, Sequences, FiniteSets, TLC

\* ------------------------------------------------------------------ bounds
NumStamps == 2      \* distinct modification times / entry payloads
MaxItems == 1       \* options.maxItems given to the constructor (cache.js:11)

\* the keys given to the cache (hex digests): one more than the ceiling holds
Keys == {"0a", "1b"}
Stamps == 1..NumStamps
Callers == {"c1"}

\* ------------------------------------------------------------ cache state
VARIABLES
  mem,        \* memoryCache: sequence of [key, val], least recently used first
  disk,       \* cacheDir: key -> content of <key>.json
  mtime,      \* current mtimeMs of the source file the entries were made from
  calls,      \* caller -> the cache method it is in and where
  loader,     \* the loadCache() started by the constructor
  last,       \* the call that returned in the step just taken, if any
  solo,       \* tiers as they were when a call began with nothing else in flight
  written,    \* key -> entry last given to set() and still owed by memory
  failed,     \* keys whose entry in written met a failed disk write
  evicted     \* keys dropped from memory by the item ceiling or the ttl

\* --------------------------------------------------- key derivation state
VARIABLES
  kfs,        \* absolute path -> mtimeMs of the file there, 0 when there is none
  kcall,      \* the generateKey call in progress
  klog,       \* the keys returned for the file keyed last, since it last
              \* changed
  krun        \* which process (run of the build) is calling

\* ------------------------------------------------------------ build state
VARIABLES
  bcache,     \* build.js `cache`: the set of [key, val] it holds
  srcCss,     \* mtime (and content version) of src/styles/main.css
  srcImg,     \* image file -> its mtime
  bpc,        \* where build() is
  jsSt,       \* where bundleJavaScript is
  jsRes,      \* the output list bundleJavaScript returned
  cssSt,      \* where processCss is
  cssRead,    \* the style content processCss read
  cssRes,     \* what processCss returns
  imgPhase,   \* where processImages is
  imgSt,      \* image file -> where its mapper is
  imgKey,     \* image file -> the mtime its mapper put in the cache key
  imgRes,     \* image file -> the result its mapper returned
  page,       \* what generateHtml was called with
  validation, \* what validateHTML answered, and whether FORCE_BUILD was set
  cause,      \* the stage whose failure ended the build, if one did
  work,       \* transforms performed by the build in progress (or just ended)
  wrote,      \* files written by the build in progress (or just ended)
  out,        \* files under build/
  warm,       \* a build has completed and neither inputs nor cache changed since
  startedWarm \* warm, as build() found it when it was called

\* ------------------------------------------------- image versions state
VARIABLES
  vin,        \* an image and a configuration given to the per-file mapper
  vout        \* the versions the mapper made of it

\* ------------------------------------------------ image pipeline state
VARIABLES
  pmFiles,    \* how many files the glob returned: they are 1..pmFiles, in
              \* the glob's order
  pmLimit,    \* the concurrency given to p-map
  pmPhase,    \* where processImages is
  pmSt,       \* file -> where its mapper is
  pmPending,  \* file -> how many toFile its mapper called that have not settled
  pmResults,  \* the array p-map resolves with
  pmOrder,    \* the files in the order their mappers finished
  pmManifest  \* the entries of the manifest, in the order of its keys

\* -------------------------------------------------- output names state
VARIABLES
  nmFiles,    \* the source images the glob returned
  nmCalled,   \* the ones whose mapper has called toFile for its versions
  nmPending,  \* source -> the files its toFile calls have yet to write
  nmDone,     \* the ones whose mapper has returned
  nmDisk      \* build/assets/images: file name -> the source it was made of

\* ------------------------------------------------- image validator state
VARIABLES
  viItem,     \* the entry given to validators.imageCache
  viFs,       \* path -> mtimeMs of the file there, 0 when there is none
  viDone,     \* the validator has answered
  viVerdict   \* what it answered

\* ----------------------------------------------------- style cache state
VARIABLES
  scContent,  \* content version (and mtime) of the style sources
  scCache,    \* build.js `cache`: the [key, val] it holds for style lists
  scEver,     \* every [key, val] that cache.set was given
  scCall,     \* the last call of processCss: its list, its key, what it has
              \* read, its result, and the key processCssWithCache derives
  scCalls     \* how many calls there have been

\* ------------------------------------------------------ puzzle game state
VARIABLES
  rows,       \* rows of the grid
  cols,       \* columns of the grid
  timeLeft,   \* seconds left: undefined, NaN or a number
  completed,  \* the fireworks have been shown
  pieces,     \* piece -> its original cell, its current cell, and the cell
              \* its sprite is drawn at
  selectedPiece, \* the piece clicked first, 0 for none
  reloading   \* the time-up alert is shown and the page is about to reload

cacheVars == <<mem, disk, mtime, calls, loader, last, solo, written, failed,
               evicted>>
keyVars == <<kfs, kcall, klog, krun>>
buildVars == <<bcache, srcCss, srcImg, bpc, jsSt, jsRes, cssSt, cssRead, cssRes,
               imgPhase, imgSt, imgKey, imgRes, page, validation, cause, work,
               wrote, out, warm, startedWarm>>
sizeVars == <<vin, vout>>
pmapVars ==
  <<pmFiles, pmLimit, pmPhase, pmSt, pmPending, pmResults, pmOrder, pmManifest>>
namesVars == <<nmFiles, nmCalled, nmPending, nmDone, nmDisk>>
validatorVars == <<viItem, viFs, viDone, viVerdict>>
cssVars == <<scContent, scCache, scEver, scCall, scCalls>>
gameVars == <<rows, cols, timeLeft, completed, pieces, selectedPiece, reloading>>
nonCacheVars == <<keyVars, buildVars, sizeVars, pmapVars, namesVars, validatorVars, cssVars, gameVars>>
nonKeyVars == <<cacheVars, buildVars, sizeVars, pmapVars, namesVars, validatorVars, cssVars, gameVars>>
nonBuildVars == <<cacheVars, keyVars, sizeVars, pmapVars, namesVars, validatorVars, cssVars, gameVars>>
nonSizeVars == <<cacheVars, keyVars, buildVars, pmapVars, namesVars, validatorVars, cssVars, gameVars>>
nonPMapVars == <<cacheVars, keyVars, buildVars, sizeVars, namesVars, validatorVars, cssVars, gameVars>>
nonNamesVars == <<keyVars, buildVars, sizeVars, pmapVars, cacheVars, validatorVars, cssVars, gameVars>>
nonValidatorVars == <<keyVars, buildVars, sizeVars, pmapVars, namesVars, cacheVars, cssVars, gameVars>>
nonCssVars == <<keyVars, buildVars, sizeVars, pmapVars, namesVars, validatorVars, cacheVars, gameVars>>
nonGameVars == <<keyVars, buildVars, sizeVars, pmapVars, namesVars, validatorVars, cssVars, cacheVars>>

\* ---------------------------------------------------------------- values
Absent == [tag |-> "absent", ts |-> 0]
Corrupt == [tag |-> "corrupt", ts |-> 0]
Entry(t) == [tag |-> "entry", ts |-> t]
Entries == {Entry(t) : t \in Stamps}
Contents == Entries \cup {Absent, Corrupt}

Miss == [tag |-> "miss", ts |-> 0]
Done == [tag |-> "ok", ts |-> 0]
Threw == [tag |-> "threw", ts |-> 0]
NoRet == [tag |-> "none", ts |-> 0]

Present(c) == c.tag # "absent"

\* File names of cacheDir: `${key}.json` (cache.js:50,79,90) and others.
\* A name is the sequence of its parts, ".json" being one part.
FileOf(k) == <<k, ".json">>
EndsWithJson(f) == Len(f) > 0 /\ f[Len(f)] = ".json"
\* String.prototype.replace with a string pattern: the first occurrence
RECURSIVE ReplaceFirst(_, _)
ReplaceFirst(f, part) ==
  IF f = <<>> THEN <<>>
  ELSE IF Head(f) = part THEN Tail(f)
  ELSE <<Head(f)>> \o ReplaceFirst(Tail(f), part)
\* file.replace('.json', ''): what is left is the key
KeyOfFile(f) == ReplaceFirst(f, ".json")[1]

\* ------------------------------------------------------- lru-cache (memory)
MemHas(m, k) == \E i \in DOMAIN m : m[i].key = k
MemVal(m, k) == m[CHOOSE i \in DOMAIN m : m[i].key = k].val
MemKeys(m) == {m[i].key : i \in DOMAIN m}
MemDelete(m, k) == SelectSeq(m, LAMBDA e : e.key # k)
\* get with updateAgeOnGet: the entry becomes the most recently used
MemTouch(m, k) == Append(MemDelete(m, k), [key |-> k, val |-> MemVal(m, k)])
\* set: an existing key is replaced; a new key at the ceiling evicts the oldest
MemSet(m, k, v) ==
  LET w == MemDelete(m, k)
      kept == IF Len(w) >= MaxItems THEN Tail(w) ELSE w
  IN Append(kept, [key |-> k, val |-> v])
\* keys MemSet pushes out
MemEvictedBy(m, k) == MemKeys(m) \ (MemKeys(MemSet(m, k, Absent)))

\* ------------------------------------------------------------- validators
\* validators.imageCache: the recorded timestamp equals the file's mtimeMs
ValidatorAccepts(item, mt) == item.ts = mt


\* the key derivation at rest, while the cache is exercised
KeyInitIdle ==
  /\ kfs = [p \in {} |-> 0]
  /\ kcall = [pc |-> "idle"]
  /\ klog = {}
  /\ krun = 1

\* no image is being sized
NoSizing == [file |-> "", width |-> 0, height |-> 0, formats |-> <<>>,
             sizes |-> <<>>, made |-> FALSE]
SizesInitIdle ==
  /\ vin = NoSizing
  /\ vout = <<>>

\* processImages has not been called and there is nothing for it to map
PMapInitIdle ==
  /\ pmFiles = 0
  /\ pmLimit = 1
  /\ pmPhase = "idle"
  /\ pmSt = <<>>
  /\ pmPending = <<>>
  /\ pmResults = <<>>
  /\ pmOrder = <<>>
  /\ pmManifest = <<>>

\* no image has been globbed
NamesInitIdle ==
  /\ nmFiles = <<>>
  /\ nmCalled = {}
  /\ nmPending = <<>>
  /\ nmDone = {}
  /\ nmDisk = {}

\* no entry is being validated
ValidatorInitIdle ==
  /\ viItem = [original |-> <<>>, hasVersions |-> FALSE, timestamp |-> 0]
  /\ viFs = [p \in {} |-> 0]
  /\ viDone = FALSE
  /\ viVerdict = FALSE

\* processCss has not been called
NoCssCall ==
  [pc |-> "idle", files |-> <<>>, key |-> <<>>, hit |-> FALSE, read |-> <<>>,
   ret |-> [of |-> <<>>, content |-> <<>>],
   kpc |-> "none", mtimes |-> <<>>, jsonKey |-> [hex |-> <<>>]]
CssInitIdle ==
  /\ scContent = 1
  /\ scCache = {}
  /\ scEver = {}
  /\ scCall = NoCssCall
  /\ scCalls = 0

\* part_001:436-445: `let timeLeft;`
Undefined == [tag |-> "undefined", val |-> 0]
\* part_001:434-445: the page has loaded: 3 x 3, no piece, no time set
GameInit ==
  /\ rows = 3
  /\ cols = 3
  /\ timeLeft = Undefined
  /\ completed = FALSE
  /\ pieces = <<>>
  /\ selectedPiece = 0
  /\ reloading = FALSE

\* ------------------------------------------------------- build.js at load
NumImages == 1      \* image files under public/images
\* the files the glob of build.js:194-196 returns, in its order
Images == 1..NumImages
NoResult == [name |-> <<>>, from |-> 0, versions |-> <<>>]
\* a transform: the bundling, the style processing, the encoding of image f
Transform(kind, f) == [kind |-> kind, file |-> f]
\* a file under build/: what a stage writes
Artifact(kind, f) == [kind |-> kind, file |-> f]
\* generateHtml has not been called
NoPage == [css |-> <<>>, js |-> <<>>, manifest |-> <<>>]
\* validateHTML has not answered
NoValidation == [valid |-> TRUE, force |-> FALSE, asked |-> FALSE]
\* build.js:49-52: the module is loaded: `cache` is empty, nothing runs; the
\* output directory holds nothing yet
BuildInit ==
  /\ bcache = {}
  /\ srcCss = 1
  /\ srcImg = [f \in Images |-> 1]
  /\ bpc = "idle"
  /\ jsSt = "idle"
  /\ jsRes = <<>>
  /\ cssSt = "idle"
  /\ cssRead = 0
  /\ cssRes = NoResult
  /\ imgPhase = "idle"
  /\ imgSt = [f \in Images |-> "idle"]
  /\ imgKey = [f \in Images |-> 0]
  /\ imgRes = [f \in Images |-> NoResult]
  /\ page = NoPage
  /\ validation = NoValidation
  /\ cause = "none"
  /\ work = {}
  /\ wrote = {}
  /\ out = {}
  /\ warm = FALSE
  /\ startedWarm = FALSE

\* ------------------------------------------------------- calls in progress
Idle == [pc |-> "idle", op |-> "none", key |-> "", val |-> Absent,
         item |-> Absent, verdict |-> "none"]
Validators == {"none", "mtime", "throws"}
NoFile == <<>>
NoSolo == [who |-> "none", mem |-> <<>>, disk |-> [k \in Keys |-> Absent]]
NoLast == [who |-> "none", op |-> "none", key |-> "", validator |-> "unused",
           verdict |-> "none", ret |-> NoRet, fault |-> FALSE, was |-> NoSolo]
LoaderStart == [pc |-> "readdir", files |-> {}, cur |-> NoFile, item |-> Absent]

CanCall(p) == calls[p].pc = "idle"
\* nothing but p's own call is running: no other caller, no loadCache
Quiet(p) ==
  /\ loader.pc = "done"
  /\ \A q \in Callers \ {p} : calls[q].pc = "idle"
SoloAtCall(p) ==
  IF Quiet(p) THEN [who |-> p, mem |-> mem, disk |-> disk] ELSE NoSolo
\* the snapshot is dropped when its call returns
SoloAfter(p, finished) == IF finished /\ solo.who = p THEN NoSolo ELSE solo
\* p's call returns r; f: an I/O step or the validator threw on the way; was:
\* the tiers as the call found them, when it ran with nothing else in flight
Returned(p, r, f) ==
  [who |-> p, op |-> calls[p].op, key |-> calls[p].key,
   validator |-> "unused", verdict |-> calls[p].verdict, ret |-> r,
   fault |-> f,
   was |-> IF solo.who = p THEN solo ELSE NoSolo]
\* loadCache() has run to its end
LoaderReturned ==
  [NoLast EXCEPT !.who = "loader", !.op = "loadCache", !.ret = Done,
                 !.was = IF solo.who = "loader" THEN solo ELSE NoSolo]
LoaderSolo == [who |-> "loader", mem |-> <<>>, disk |-> disk]

\* bookkeeping of what leaves memory when key k is inserted
WrittenAfterInsert(k) ==
  [x \in Keys |-> IF x \in MemEvictedBy(mem, k) THEN Absent ELSE written[x]]
EvictedAfterInsert(k) == (evicted \cup MemEvictedBy(mem, k)) \ {k}
WrittenAfterDelete(k) == [written EXCEPT ![k] = Absent]

\* ------------------------------------------------------------ constructor
\* cache.js:8-21: empty memory, loadCache() started and not awaited.  The
\* first process finds a cacheDir that holds no entry yet.
CacheInit ==
  /\ mem = <<>>
  /\ disk = [k \in Keys |-> Absent]
  /\ mtime = 1
  /\ calls = [p \in Callers |-> Idle]
  /\ loader = LoaderStart
  /\ last = NoLast
  /\ solo = [who |-> "loader", mem |-> <<>>, disk |-> [k \in Keys |-> Absent]]
  /\ written = [k \in Keys |-> Absent]
  /\ failed = {}
  /\ evicted = {}

\* ------------------------------------------------------------------- get
\* cache.js:42-51: the memory probe runs in the caller's turn; a hit returns
\* at once, without the validator; a miss goes on to fs.pathExists.
CallGet(p, k) ==
  /\ CanCall(p)
  /\ IF MemHas(mem, k)
       THEN /\ mem' = MemTouch(mem, k)
            /\ calls' = calls
            /\ last' = [NoLast EXCEPT !.who = p, !.op = "get", !.key = k,
                                      !.ret = MemVal(mem, k),
                                      !.was = SoloAtCall(p)]
            /\ solo' = NoSolo
       ELSE /\ mem' = mem
            /\ calls' = [calls EXCEPT ![p] =
                 [Idle EXCEPT !.pc = "g_exists", !.op = "get", !.key = k]]
            /\ last' = NoLast
            /\ solo' = SoloAtCall(p)
  /\ UNCHANGED <<disk, mtime, loader, written, failed, evicted>>
  /\ UNCHANGED nonCacheVars

\* cache.js:51,70: pathExists(cachePath) resolves
GetExists(p) ==
  /\ calls[p].pc = "g_exists"
  /\ LET there == Present(disk[calls[p].key]) IN
       /\ calls' = [calls EXCEPT ![p] =
            IF there THEN [@ EXCEPT !.pc = "g_read"] ELSE Idle]
       /\ last' = IF there THEN NoLast ELSE Returned(p, Miss, FALSE)
       /\ solo' = SoloAfter(p, ~there)
  /\ UNCHANGED <<mem, disk, mtime, loader, written, failed, evicted>>
  /\ UNCHANGED nonCacheVars

\* what get returns when readJson throws (cache.js:64-67)
GetReadFailRet == Miss
\* cache.js:53,64-67: readJson(cachePath) resolves or throws (the file is
\* corrupt or unreadable, or was removed since pathExists)
GetRead(p) ==
  /\ calls[p].pc = "g_read"
  /\ LET c == disk[calls[p].key]
         good == c.tag = "entry" IN
       /\ calls' = [calls EXCEPT ![p] =
            IF good THEN [@ EXCEPT !.pc = "g_valid", !.item = c] ELSE Idle]
       /\ last' = IF good THEN NoLast ELSE Returned(p, GetReadFailRet, TRUE)
       /\ solo' = SoloAfter(p, ~good)
  /\ UNCHANGED <<mem, disk, mtime, loader, written, failed, evicted>>
  /\ UNCHANGED nonCacheVars

\* cache.js:56: the verdict of options.validator on the deserialized item
Verdict(vd, item, mt) ==
  CASE vd = "none" -> "accept"
    [] vd = "throws" -> "threw"
    [] OTHER -> IF ValidatorAccepts(item, mt) THEN "accept" ELSE "reject"

\* a get that returns an accepted disk entry without keeping it in memory
MemAfterValidateNoPromote(k, item, v) ==
  IF v = "reject" THEN MemDelete(mem, k) ELSE mem
\* memoryCache after the verdict: cache.js:62 (accepted), cache.js:57,89
\* (rejected), untouched when the validator threw
MemAfterValidate(k, item, v) ==
  CASE v = "accept" -> MemSet(mem, k, item)
    [] v = "reject" -> MemDelete(mem, k)
    [] OTHER -> mem

\* cache.js:56-67 (and 89-91, the part of delete() that runs in this turn):
\* accepted: promoted into memory and returned; rejected: delete(key) begins;
\* a validator that throws is caught and reported as a miss.
GetValidate(p, vd) ==
  /\ calls[p].pc = "g_valid"
  /\ LET k == calls[p].key
         v == Verdict(vd, calls[p].item, mtime)
         c == [calls[p] EXCEPT !.verdict = v] IN
       /\ mem' = MemAfterValidate(k, calls[p].item, v)
       /\ CASE v = "accept" ->
                 /\ calls' = [calls EXCEPT ![p] = Idle]
                 /\ last' = [Returned(p, calls[p].item, FALSE) EXCEPT
                              !.validator = vd, !.verdict = v]
                 /\ solo' = SoloAfter(p, TRUE)
                 /\ written' = WrittenAfterInsert(k)
                 /\ failed' = failed \ MemEvictedBy(mem, k)
                 /\ evicted' = EvictedAfterInsert(k)
            [] v = "reject" ->
                 /\ calls' = [calls EXCEPT ![p] = [c EXCEPT !.pc = "g_delexists"]]
                 /\ last' = NoLast
                 /\ solo' = solo
                 /\ written' = WrittenAfterDelete(k)
                 /\ failed' = failed \ {k}
                 /\ evicted' = evicted \ {k}
            [] OTHER ->
                 /\ calls' = [calls EXCEPT ![p] = Idle]
                 /\ last' = [Returned(p, Miss, TRUE) EXCEPT
                              !.validator = vd, !.verdict = v]
                 /\ solo' = SoloAfter(p, TRUE)
                 /\ UNCHANGED <<written, failed, evicted>>
  /\ UNCHANGED <<disk, mtime, loader>>
  /\ UNCHANGED nonCacheVars

\* cache.js:91 reached from cache.js:57: pathExists inside delete()
GetDeleteExists(p) ==
  /\ calls[p].pc = "g_delexists"
  /\ LET there == Present(disk[calls[p].key]) IN
       /\ calls' = [calls EXCEPT ![p] =
            IF there THEN [@ EXCEPT !.pc = "g_remove"] ELSE Idle]
       /\ last' = IF there THEN NoLast ELSE Returned(p, Miss, FALSE)
       /\ solo' = SoloAfter(p, ~there)
  /\ UNCHANGED <<mem, disk, mtime, loader, written, failed, evicted>>
  /\ UNCHANGED nonCacheVars

\* the files left by a successful fs.remove(cachePath) (cache.js:90,92)
DiskAfterRemove(k) == [disk EXCEPT ![k] = Absent]
\* a get that lets the failure of fs.remove escape to its caller
GetRemoveFailThrown == Threw
\* what get returns when the fs.remove of delete() throws: the await of
\* cache.js:57 is inside the try of cache.js:52-67
GetRemoveFailRet == Miss
\* cache.js:92 reached from cache.js:57, then cache.js:58 or 64-67
GetRemove(p) ==
  /\ calls[p].pc = "g_remove"
  /\ \E ok \in BOOLEAN :
       /\ disk' = IF ok THEN DiskAfterRemove(calls[p].key) ELSE disk
       /\ last' = IF ok THEN Returned(p, Miss, FALSE)
                  ELSE Returned(p, GetRemoveFailRet, TRUE)
  /\ calls' = [calls EXCEPT ![p] = Idle]
  /\ solo' = SoloAfter(p, TRUE)
  /\ UNCHANGED <<mem, mtime, loader, written, failed, evicted>>
  /\ UNCHANGED nonCacheVars

\* ------------------------------------------------------------------- set
\* what memoryCache holds after the first statement of set() (cache.js:76)
MemAfterSet(k, v) == MemSet(mem, k, v)
\* cache.js:74-81: memoryCache.set in the caller's turn, then writeJson
CallSet(p, k, t) ==
  /\ CanCall(p)
  /\ mem' = MemAfterSet(k, Entry(t))
  /\ calls' = [calls EXCEPT ![p] =
       [Idle EXCEPT !.pc = "s_write", !.op = "set", !.key = k, !.val = Entry(t)]]
  /\ last' = NoLast
  /\ solo' = SoloAtCall(p)
  /\ written' = [WrittenAfterInsert(k) EXCEPT ![k] = Entry(t)]
  /\ failed' = (failed \ MemEvictedBy(mem, k)) \ {k}
  /\ evicted' = EvictedAfterInsert(k)
  /\ UNCHANGED <<disk, mtime, loader>>
  /\ UNCHANGED nonCacheVars

\* how set() ends when writeJson throws (cache.js:82-84: logged, swallowed)
SetWriteFailRet == Done
\* the file a writeJson leaves: the value, or on failure the old file or a
\* truncated one
WriteOutcomes == {"written", "failed", "torn"}
DiskAfterWrite(k, v, how) ==
  CASE how = "written" -> [disk EXCEPT ![k] = v]
    [] how = "torn" -> [disk EXCEPT ![k] = Corrupt]
    [] OTHER -> disk
\* cache.js:81-84: writeJson(cachePath, value) resolves or throws
SetWrite(p) ==
  /\ calls[p].pc = "s_write"
  /\ \E how \in WriteOutcomes :
       LET k == calls[p].key IN
       /\ disk' = DiskAfterWrite(k, calls[p].val, how)
       /\ last' = IF how = "written" THEN Returned(p, Done, FALSE)
                  ELSE Returned(p, SetWriteFailRet, TRUE)
       /\ failed' = IF how # "written" /\ written[k] = calls[p].val
                    THEN failed \cup {k} ELSE failed
  /\ calls' = [calls EXCEPT ![p] = Idle]
  /\ solo' = SoloAfter(p, TRUE)
  /\ UNCHANGED <<mem, mtime, loader, written, evicted>>
  /\ UNCHANGED nonCacheVars

\* ---------------------------------------------------------------- delete
\* a delete that empties the whole memory tier
MemAfterDeleteAll(k) == <<>>
\* what memoryCache holds after the first statement of delete() (cache.js:89)
MemAfterDelete(k) == MemDelete(mem, k)
\* cache.js:88-91: memoryCache.delete in the caller's turn, then pathExists
CallDelete(p, k) ==
  /\ CanCall(p)
  /\ mem' = MemAfterDelete(k)
  /\ calls' = [calls EXCEPT ![p] =
       [Idle EXCEPT !.pc = "d_exists", !.op = "delete", !.key = k]]
  /\ last' = NoLast
  /\ solo' = SoloAtCall(p)
  /\ written' = WrittenAfterDelete(k)
  /\ failed' = failed \ {k}
  /\ evicted' = evicted \ {k}
  /\ UNCHANGED <<disk, mtime, loader>>
  /\ UNCHANGED nonCacheVars

\* cache.js:91: pathExists(cachePath) resolves
DeleteExists(p) ==
  /\ calls[p].pc = "d_exists"
  /\ LET there == Present(disk[calls[p].key]) IN
       /\ calls' = [calls EXCEPT ![p] =
            IF there THEN [@ EXCEPT !.pc = "d_remove"] ELSE Idle]
       /\ last' = IF there THEN NoLast ELSE Returned(p, Done, FALSE)
       /\ solo' = SoloAfter(p, ~there)
  /\ UNCHANGED <<mem, disk, mtime, loader, written, failed, evicted>>
  /\ UNCHANGED nonCacheVars

\* cache.js:92: fs.remove resolves, or throws out of delete()
DeleteRemove(p) ==
  /\ calls[p].pc = "d_remove"
  /\ \E ok \in BOOLEAN :
       /\ disk' = IF ok THEN DiskAfterRemove(calls[p].key) ELSE disk
       /\ last' = IF ok THEN Returned(p, Done, FALSE) ELSE Returned(p, Threw, TRUE)
  /\ calls' = [calls EXCEPT ![p] = Idle]
  /\ solo' = SoloAfter(p, TRUE)
  /\ UNCHANGED <<mem, mtime, loader, written, failed, evicted>>
  /\ UNCHANGED nonCacheVars

\* ----------------------------------------------------------------- clear
\* cache.js:97-99: memoryCache.clear in the caller's turn, then emptyDir
CallClear(p) ==
  /\ CanCall(p)
  /\ mem' = <<>>
  /\ calls' = [calls EXCEPT ![p] = [Idle EXCEPT !.pc = "c_empty", !.op = "clear"]]
  /\ last' = NoLast
  /\ solo' = SoloAtCall(p)
  /\ written' = [k \in Keys |-> Absent]
  /\ failed' = {}
  /\ evicted' = {}
  /\ UNCHANGED <<disk, mtime, loader>>
  /\ UNCHANGED nonCacheVars

\* the files left by a successful emptyDir(cacheDir) (cache.js:99)
DiskAfterEmptyDir == [k \in Keys |-> Absent]
\* cache.js:99: emptyDir resolves, or throws out of clear()
ClearEmpty(p) ==
  /\ calls[p].pc = "c_empty"
  /\ \E ok \in BOOLEAN :
       /\ disk' = IF ok THEN DiskAfterEmptyDir ELSE disk
       /\ last' = IF ok THEN Returned(p, Done, FALSE) ELSE Returned(p, Threw, TRUE)
  /\ calls' = [calls EXCEPT ![p] = Idle]
  /\ solo' = SoloAfter(p, TRUE)
  /\ UNCHANGED <<mem, mtime, loader, written, failed, evicted>>
  /\ UNCHANGED nonCacheVars

\* ------------------------------------------------------------- loadCache
JsonFiles(fs) == {f \in fs : EndsWithJson(f)}
\* what readdir(cacheDir) lists
Listing == {FileOf(k) : k \in {x \in Keys : Present(disk[x])}}
\* the loop of cache.js:105-115 goes on while .json files are left
LoadPcAfter(rest) == IF JsonFiles(rest) = {} THEN "done" ELSE "scan"
\* a scan that a file it cannot read brings to an end
LoadAbortPc(rest) == "done"
\* cache.js:111-113: a file that cannot be read is logged and the loop goes on
LoadSkipPc(rest) == LoadPcAfter(rest)

\* cache.js:104: readdir(cacheDir) resolves
LoadReaddir ==
  /\ loader.pc = "readdir"
  /\ loader' = [loader EXCEPT !.pc = LoadPcAfter(Listing), !.files = Listing]
  /\ last' = IF loader'.pc = "done" THEN LoaderReturned ELSE NoLast
  /\ solo' = SoloAfter("loader", loader'.pc = "done")
  /\ UNCHANGED <<mem, disk, mtime, calls, written, failed, evicted>>
  /\ UNCHANGED nonCacheVars

\* cache.js:106-109,111-113: the next .json file is read, or cannot be
LoadRead(f) ==
  /\ loader.pc = "scan"
  /\ f \in JsonFiles(loader.files)
  /\ LET c == disk[KeyOfFile(f)]
         rest == loader.files \ {f} IN
       loader' = IF c.tag = "entry"
                   THEN [loader EXCEPT !.pc = "store", !.cur = f, !.item = c]
                   ELSE [loader EXCEPT !.pc = LoadSkipPc(rest), !.files = rest]
  /\ last' = IF loader'.pc = "done" THEN LoaderReturned ELSE NoLast
  /\ solo' = SoloAfter("loader", loader'.pc = "done")
  /\ UNCHANGED <<mem, disk, mtime, calls, written, failed, evicted>>
  /\ UNCHANGED nonCacheVars

\* cache.js:107,110: the value read goes into memory under the file's key
LoadStore ==
  /\ loader.pc = "store"
  /\ LET k == KeyOfFile(loader.cur)
         rest == loader.files \ {loader.cur} IN
       /\ mem' = MemSet(mem, k, loader.item)
       /\ loader' = [LoaderStart EXCEPT !.pc = LoadPcAfter(rest), !.files = rest]
       /\ written' = WrittenAfterInsert(k)
       /\ failed' = failed \ MemEvictedBy(mem, k)
       /\ evicted' = EvictedAfterInsert(k)
  /\ last' = IF loader'.pc = "done" THEN LoaderReturned ELSE NoLast
  /\ solo' = SoloAfter("loader", loader'.pc = "done")
  /\ UNCHANGED <<disk, mtime, calls>>
  /\ UNCHANGED nonCacheVars

\* ------------------------------------------------------------ environment
\* an expiry that also unlinks the entry's file
DiskAfterExpireSweep(k) == [disk EXCEPT ![k] = Absent]
\* the files an expiry in memory leaves in cacheDir: lru-cache's ttl
\* (cache.js:10-14) knows nothing of the disk tier
DiskAfterExpire(k) == disk
\* cache.js:12: an entry older than the ttl is gone from memory
Expire(k) ==
  /\ MemHas(mem, k)
  /\ mem' = MemDelete(mem, k)
  /\ disk' = DiskAfterExpire(k)
  /\ written' = WrittenAfterDelete(k)
  /\ failed' = failed \ {k}
  /\ evicted' = evicted \cup {k}
  /\ solo' = IF solo.who = "none" THEN solo
             ELSE [solo EXCEPT !.mem = MemDelete(@, k)]
  /\ last' = NoLast
  /\ UNCHANGED <<mtime, calls, loader>>
  /\ UNCHANGED nonCacheVars

\* the source file is modified: its mtimeMs changes
Touch ==
  /\ \E t \in Stamps \ {mtime} : mtime' = t
  /\ last' = NoLast
  /\ UNCHANGED <<mem, disk, calls, loader, solo, written, failed, evicted>>
  /\ UNCHANGED nonCacheVars

\* the process ends (calls in flight are lost) and the next one constructs
\* its BuildCache over the same cacheDir (cache.js:8-21)
Restart ==
  /\ mem' = <<>>
  /\ calls' = [p \in Callers |-> Idle]
  /\ loader' = LoaderStart
  /\ last' = NoLast
  /\ solo' = LoaderSolo
  /\ written' = [k \in Keys |-> Absent]
  /\ failed' = {}
  /\ evicted' = {}
  /\ UNCHANGED <<disk, mtime>>
  /\ UNCHANGED nonCacheVars

CacheNext ==
  \/ \E p \in Callers, k \in Keys : CallGet(p, k)
  \/ \E p \in Callers : GetExists(p)
  \/ \E p \in Callers : GetRead(p)
  \/ \E p \in Callers, vd \in Validators : GetValidate(p, vd)
  \/ \E p \in Callers : GetDeleteExists(p)
  \/ \E p \in Callers : GetRemove(p)
  \/ \E p \in Callers, k \in Keys, t \in Stamps : CallSet(p, k, t)
  \/ \E p \in Callers : SetWrite(p)
  \/ \E p \in Callers, k \in Keys : CallDelete(p, k)
  \/ \E p \in Callers : DeleteExists(p)
  \/ \E p \in Callers : DeleteRemove(p)
  \/ \E p \in Callers : CallClear(p)
  \/ \E p \in Callers : ClearEmpty(p)
  \/ LoadReaddir
  \/ \E f \in loader.files : LoadRead(f)
  \/ LoadStore
  \/ \E k \in Keys : Expire(k)
  \/ Touch
  \/ Restart

vars == <<cacheVars, nonCacheVars>>
\* a process that constructs a BuildCache
InitCache == CacheInit /\ KeyInitIdle /\ BuildInit /\ SizesInitIdle /\ PMapInitIdle
  /\ NamesInitIdle
  /\ ValidatorInitIdle
  /\ CssInitIdle
  /\ GameInit
SpecCache == InitCache /\ [][CacheNext]_vars

\* ============================================================ generateKey
\* Strings are sequences of characters; a few words stand for themselves.
MaxRuns == 2        \* processes that derive keys over the same files
Kinds == {"image", "css"}
\* identifiers given to generateKey: a relative and an absolute spelling of
\* one file, and a string that looks like a path followed by a timestamp
Idents == {<<"a">>, <<"/", "a">>, <<"a", ":", "1">>}
\* path.resolve against the working directory "/"
Resolve(id) == IF Head(id) = "/" THEN id ELSE <<"/">> \o id
Paths == {Resolve(id) : id \in Idents}
\* `${n}` for a number
Str(n) == <<ToString(n)>>
\* crypto.createHash('md5').update(s).digest('hex'), taken as collision-free
Md5(s) == [hex |-> s]

\* a key that mixes in the calling process
HashedStringSalted(input, isFile, mt, type, run) ==
  IF isFile THEN input \o <<":">> \o Str(mt) \o <<":", type>> \o Str(run)
  ELSE input \o <<":", type>> \o Str(run)
\* the string generateKey hashes: cache.js:30 for a file, cache.js:36 else
HashedString(input, isFile, mt, type, run) ==
  IF isFile THEN input \o <<":">> \o Str(mt) \o <<":", type>>
  ELSE input \o <<":", type>>

NoKeyCall == [pc |-> "idle", input |-> <<>>, type |-> "none", clean |-> TRUE]
KeyThrew == [hex |-> <<"threw">>]

KeyInit ==
  /\ kfs \in [Paths -> 0..NumStamps]
  /\ kcall = NoKeyCall
  /\ klog = {}
  /\ krun = 1

\* cache.js:24-25: generateKey(input, type) is called; pathExists pending
KeyCall(input, type) ==
  /\ kcall.pc = "idle"
  /\ kcall' = [pc |-> "exists", input |-> input, type |-> type, clean |-> TRUE]
  /\ UNCHANGED <<kfs, klog, krun>>
  /\ UNCHANGED nonKeyVars

\* what a finished call adds to the log: nothing when the file changed
\* while the call was running; the log keeps the keys of one file
LogAfter(key) ==
  IF kcall.clean
    THEN {e \in klog : Resolve(e.input) = Resolve(kcall.input)}
         \cup {[input |-> kcall.input, type |-> kcall.type, key |-> key,
                 run |-> krun]}
    ELSE klog

\* cache.js:25,32-37: pathExists resolves; no file: the input is content
KeyExists ==
  /\ kcall.pc = "exists"
  /\ IF kfs[Resolve(kcall.input)] > 0
       THEN /\ kcall' = [kcall EXCEPT !.pc = "stat"]
            /\ klog' = klog
       ELSE /\ kcall' = NoKeyCall
            /\ klog' = LogAfter(Md5(HashedString(kcall.input, FALSE, 0,
                                                  kcall.type, krun)))
  /\ UNCHANGED <<kfs, krun>>
  /\ UNCHANGED nonKeyVars

\* cache.js:27-31: stat resolves (or throws: the file is gone)
KeyStat ==
  /\ kcall.pc = "stat"
  /\ LET mt == kfs[Resolve(kcall.input)] IN
       klog' = LogAfter(IF mt > 0
                          THEN Md5(HashedString(kcall.input, TRUE, mt,
                                                kcall.type, krun))
                          ELSE KeyThrew)
  /\ kcall' = NoKeyCall
  /\ UNCHANGED <<kfs, krun>>
  /\ UNCHANGED nonKeyVars

\* the file at path p is written, created or removed: keys derived from it
\* before no longer speak of the same file
KeyFileChange(p, mt) ==
  /\ mt # kfs[p]
  /\ kfs' = [kfs EXCEPT ![p] = mt]
  /\ klog' = {e \in klog : Resolve(e.input) # p}
  /\ kcall' = IF kcall.pc # "idle" /\ Resolve(kcall.input) = p
                THEN [kcall EXCEPT !.clean = FALSE] ELSE kcall
  /\ UNCHANGED krun
  /\ UNCHANGED nonKeyVars

\* the process ends and another one starts over the same files
KeyNewRun ==
  /\ krun < MaxRuns
  /\ kcall.pc = "idle"
  /\ krun' = krun + 1
  /\ UNCHANGED <<kfs, kcall, klog>>
  /\ UNCHANGED nonKeyVars

KeyNext ==
  \/ \E input \in Idents, type \in Kinds : KeyCall(input, type)
  \/ KeyExists
  \/ KeyStat
  \/ \E p \in Paths, mt \in 0..NumStamps : KeyFileChange(p, mt)
  \/ KeyNewRun

\* a process that derives keys
InitKey == CacheInit /\ KeyInit /\ BuildInit /\ SizesInitIdle /\ PMapInitIdle
  /\ NamesInitIdle
  /\ ValidatorInitIdle
  /\ CssInitIdle
  /\ GameInit
SpecKey == InitKey /\ [][KeyNext]_vars

\* C10: two calls of generateKey for the same identifier, with the file it
\* names unchanged in between, in one process or in two, return the same key
\* when the kinds are equal and different keys when the kinds differ.
KeyDeterministicAndKindSensitive ==
  \A a, b \in klog :
    a.input = b.input => (a.type = b.type <=> a.key = b.key)
\* the same file and kind were keyed in two processes, and another kind too
KeyWitness ==
  \E a, b, c \in klog :
    /\ a.input = b.input /\ a.type = b.type /\ a.run # b.run
    /\ kfs[Resolve(a.input)] > 0
    /\ c.input = a.input /\ c.type # a.type

\* ========================================================= image versions
\* build.js:211-247: what the mapper of processImages makes of one image.
\* config.optimization.images (build.js:32-36)
ConfigFormats == <<"webp", "avif">>
ConfigSizes == <<640, 1024, 1920>>

\* ---- the numbers of build.js:217 are IEEE 754 doubles.  A positive double
\* is written [int |-> its integer part, frac |-> the bits of its fraction,
\* the most significant first]; every result is rounded to the nearest
\* double, a tie to the one whose last bit is 0.
\* bits of the significand of a double
Precision == 53
\* the number of bits of a natural number
RECURSIVE BitLen(_)
BitLen(n) == IF n = 0 THEN 0 ELSE 1 + BitLen(n \div 2)
\* the zeros before the first one in the binary expansion of r / w, 0 < r < w
RECURSIVE LeadingZeros(_, _)
LeadingZeros(r, w) == IF 2 * r >= w THEN 0 ELSE 1 + LeadingZeros(2 * r, w)
\* the bits of a sequence of digits of base 256, eight a digit
BitsOf(digits) ==
  [i \in 1..(8 * Len(digits)) |->
     (digits[(i - 1) \div 8 + 1]
        \div <<128, 64, 32, 16, 8, 4, 2, 1>>[((i - 1) % 8) + 1]) % 2]
\* the digits of base 256 of a sequence of bits, filled with zeros at its end
DigitsOf(bits) ==
  LET b(i) == IF i <= Len(bits) THEN bits[i] ELSE 0 IN
    [j \in 1..((Len(bits) + 7) \div 8) |->
       128 * b(8 * j - 7) + 64 * b(8 * j - 6) + 32 * b(8 * j - 5)
       + 16 * b(8 * j - 4) + 8 * b(8 * j - 3) + 4 * b(8 * j - 2)
       + 2 * b(8 * j - 1) + b(8 * j)]
\* n more digits of base 256 of the expansion of r / w, 0 <= r < w, after
\* the digits acc, and the remainder left after them
RECURSIVE Expansion(_, _, _, _)
Expansion(r, w, n, acc) ==
  IF n = 0 THEN [digits |-> acc, rem |-> r]
  ELSE Expansion((256 * r) % w, w, n - 1, Append(acc, (256 * r) \div w))
\* the significant bits of a positive value
SigBits(x) ==
  IF x.int > 0 THEN BitLen(x.int) + Len(x.frac)
  ELSE Len(x.frac) + 1
       - (CHOOSE i \in 1..Len(x.frac) :
            x.frac[i] = 1 /\ \A j \in 1..(i - 1) : x.frac[j] = 0)
\* x plus one unit of its last bit
AddUlp(x) ==
  LET zeros == {i \in 1..Len(x.frac) : x.frac[i] = 0} IN
    IF zeros = {}
      THEN [int |-> x.int + 1, frac |-> [i \in 1..Len(x.frac) |-> 0]]
    ELSE LET p == CHOOSE i \in zeros : \A j \in zeros : j <= i IN
      [int |-> x.int,
       frac |-> [i \in 1..Len(x.frac) |->
                   IF i < p THEN x.frac[i] ELSE IF i = p THEN 1 ELSE 0]]
\* the double nearest to a value that is x, plus something less than one
\* unit of x's last bit when `more`
RoundToDouble(x, more) ==
  LET d == SigBits(x) - Precision
      n == Len(x.frac) - d
      kept == [int |-> x.int, frac |-> SubSeq(x.frac, 1, n)]
      low == more \/ \E i \in (n + 2)..Len(x.frac) : x.frac[i] = 1
      lsb == IF n > 0 THEN x.frac[n] ELSE x.int % 2
  IN IF d <= 0 THEN x
     ELSE IF x.frac[n + 1] = 1 /\ (low \/ lsb = 1) THEN AddUlp(kept)
     ELSE kept
\* h / w for positive integers
Divide(h, w) ==
  LET int == h \div w
      n == IF int > 0 THEN Precision + 1 - BitLen(int)
           ELSE LeadingZeros(h, w) + Precision + 1
      e == Expansion(h % w, w, (n + 7) \div 8, <<>>)
  IN RoundToDouble([int |-> int, frac |-> BitsOf(e.digits)], e.rem # 0)
\* the digits i..1 of frac times k, plus carry, before the digits acc
RECURSIVE TimesDigits(_, _, _, _, _)
TimesDigits(k, frac, i, carry, acc) ==
  IF i = 0 THEN [carry |-> carry, digits |-> acc]
  ELSE TimesDigits(k, frac, i - 1, (k * frac[i] + carry) \div 256,
                   <<(k * frac[i] + carry) % 256>> \o acc)
\* k * x for a positive integer k
Times(k, x) ==
  LET frac == DigitsOf(x.frac)
      m == TimesDigits(k, frac, Len(frac), 0, <<>>)
  IN RoundToDouble([int |-> k * x.int + m.carry, frac |-> BitsOf(m.digits)],
                   FALSE)
\* Math.round(x): the nearest integer, a tie to the greater
MathRound(x) ==
  x.int + (IF x.frac # <<>> /\ x.frac[1] = 1 THEN 1 ELSE 0)
\* build.js:217: Math.round(width * (metadata.height / metadata.width))
ScaledHeight(width, w, h) == MathRound(Times(width, Divide(h, w)))
\* every configured size, whatever the image's width
SizesUnfiltered(sizes, w) == sizes
\* build.js:215: sizes.filter(width => width <= metadata.width)
SizesThatFit(sizes, w) == SelectSeq(sizes, LAMBDA width : width <= w)
\* build.js:218-221,235: <basename>-<width>.<format> under assets/images
OutputFile(file, width, format) ==
  <<"assets/images/", file, "-", ToString(width), ".", format>>
\* build.js:214-238: the versions of one format, in the order of the sizes
VersionsOfFormat(file, w, h, format, sizes) ==
  LET fit == SizesThatFit(sizes, w) IN
    [i \in 1..Len(fit) |->
       [format |-> format, width |-> fit[i],
        height |-> ScaledHeight(fit[i], w, h),
        file |-> OutputFile(file, fit[i], format)]]
\* a flattening that keeps the first format's versions only
RECURSIVE FlatFirstOnly(_, _, _, _, _)
FlatFirstOnly(file, w, h, formats, sizes) ==
  IF formats = <<>> THEN <<>>
  ELSE VersionsOfFormat(file, w, h, Head(formats), sizes)
\* build.js:211-213,240-246: versions.flat(): format by format
RECURSIVE ImageVersions(_, _, _, _, _)
ImageVersions(file, w, h, formats, sizes) ==
  IF formats = <<>> THEN <<>>
  ELSE VersionsOfFormat(file, w, h, Head(formats), sizes)
       \o ImageVersions(file, w, h, Tail(formats), sizes)

\* the images and configurations the mapper is tried on; for a 2304x147
\* picture 1920 * (147 / 2304) falls just short of 122.5 in doubles
TryWidths == {500, 640, 1000, 2000, 2304}
TryFormats == {<<>>, <<"webp">>, <<"avif">>, <<"webp", "avif">>, <<"avif", "webp">>}
TrySizes == {<<>>, <<640>>, <<1920>>, <<640, 1024>>, <<1920, 640>>,
             <<640, 1024, 1920>>}
SizesInputs ==
  [file : {"photo"}, width : TryWidths, height : {147, 500, 1000},
   formats : TryFormats, sizes : TrySizes, made : {FALSE}]

SizesInit ==
  /\ vin \in SizesInputs
  /\ vout = <<>>

\* build.js:208-247: the mapper runs on the image: metadata, then versions
MakeVersions ==
  /\ ~vin.made
  /\ vin' = [vin EXCEPT !.made = TRUE]
  /\ vout' = ImageVersions(vin.file, vin.width, vin.height, vin.formats,
                            vin.sizes)
  /\ UNCHANGED nonSizeVars

\* the next image or configuration
NextSizing ==
  /\ vin.made
  /\ vin' \in SizesInputs
  /\ vout' = <<>>
  /\ UNCHANGED nonSizeVars

SizesNext == MakeVersions \/ NextSizing

\* a mapper run on its own
InitSizes == CacheInit /\ KeyInitIdle /\ BuildInit /\ SizesInit /\ PMapInitIdle
  /\ NamesInitIdle
  /\ ValidatorInitIdle
  /\ CssInitIdle
  /\ GameInit
SpecSizes == InitSizes /\ [][SizesNext]_vars

\* C12: whatever the image's width W and the configured sizes and formats,
\* no version the mapper returns is wider than W.
NoUpscaling ==
  vin.made => \A i \in DOMAIN vout : vout[i].width <= vin.width
\* a configured size was skipped for being wider than the image, another kept
NoUpscalingWitness ==
  /\ vin.made
  /\ vout # <<>>
  /\ \E i \in DOMAIN vin.sizes : vin.sizes[i] > vin.width

\* C13 (as claimed): a 2000x1000 image under the configuration of build.js
\* gets exactly four versions, 640 and 1024 wide in webp and in avif, and
\* none 1920 wide.
ExampleVersions ==
  (/\ vin.made
   /\ vin.width = 2000 /\ vin.height = 1000
   /\ vin.formats = ConfigFormats /\ vin.sizes = ConfigSizes) =>
    /\ Len(vout) = 4
    /\ {[format |-> vout[i].format, width |-> vout[i].width] : i \in DOMAIN vout}
         = [format : {"webp", "avif"}, width : {640, 1024}]
    /\ \A i \in DOMAIN vout : vout[i].width # 1920
\* C13 (amended): 1920 does not exceed 2000, so the image gets exactly six
\* versions: 640, 1024 and 1920 wide, each in webp and in avif, the webp ones
\* first, with heights 320, 512 and 960.
ExampleVersionsAmended ==
  (/\ vin.made
   /\ vin.width = 2000 /\ vin.height = 1000
   /\ vin.formats = ConfigFormats /\ vin.sizes = ConfigSizes) =>
    /\ Len(vout) = 6
    /\ \A i \in 1..6 :
         /\ vout[i].format = ConfigFormats[((i - 1) \div 3) + 1]
         /\ vout[i].width = ConfigSizes[((i - 1) % 3) + 1]
         /\ vout[i].height * 2 = vout[i].width
\* the example has been run, and its last version is 1920x960 in avif
ExampleWitness ==
  /\ vin.made
  /\ vin.width = 2000 /\ vin.height = 1000
  /\ vin.formats = ConfigFormats /\ vin.sizes = ConfigSizes
  /\ vout[Len(vout)].format = "avif"
  /\ vout[Len(vout)].width = 1920 /\ vout[Len(vout)].height = 960

\* ================================================================ build.js
\* The module-level `cache` (build.js:49-52) as a set of [key, val].
BCacheHas(k) == \E e \in bcache : e.key = k
BCacheGet(k) == (CHOOSE e \in bcache : e.key = k).val
BCacheSet(c, k, v) == {e \in c : e.key # k} \cup {[key |-> k, val |-> v]}

\* build.js:151: files.join(':') over config.input.css
CssCacheKey == <<"src/styles/main.css">>
\* build.js:199: `image:${file}:${mtimeMs}`
ImgCacheKey(f, mt) == <<"image", ":", ToString(f), ":", ToString(mt)>>
\* build.js:173-174,181: main.<hash of the processed css>.css, with the
\* content it was made from
CssFileName(content) ==
  [name |-> <<"main.", ToString(content), ".css">>, from |-> content,
   versions |-> <<>>]
\* sharp's metadata of an image file (build.js:208-209): the pictures under
\* public/images are 2000x1000; an edit swaps one for a 500x250 picture, the
\* next edit swaps it back
SrcDims(mt) ==
  IF mt % 2 = 1 THEN [w |-> 2000, h |-> 1000] ELSE [w |-> 500, h |-> 250]
\* build.js:244-247: the result for an image, with the mtime of the file
\* its versions were made from
ImgResult(f, mt) ==
  [name |-> <<ToString(f)>>, from |-> mt,
   versions |-> ImageVersions(ToString(f), SrcDims(mt).w, SrcDims(mt).h,
                              ConfigFormats, ConfigSizes)]
\* the results for the images of public/images, by image and mtime
ImgResults == [f \in Images |-> [mt \in Stamps |-> ImgResult(f, mt)]]
\* build.js:376,387: Object.keys(bundleResult.metafile.outputs)
JsOutputs == <<"build/assets/js/hydrate.js">>

\* p-map's concurrency (build.js:251): how many mappers may run at once
Concurrency == 4
\* the mapper of the next queued file starts when one finishes
Started(st) ==
  IF \E f \in Images : st[f] = "queued"
    THEN [st EXCEPT ![CHOOSE f \in Images :
                       /\ st[f] = "queued"
                       /\ \A g \in Images : st[g] = "queued" => f <= g] = "stat"]
    ELSE st

\* the Promise.all of build.js:367-371 resolves when each pipeline has
\* returned
PipelinesSettledAny == jsSt = "done" \/ cssSt = "done" \/ imgPhase = "done"
PipelinesSettled == jsSt = "done" /\ cssSt = "done" /\ imgPhase = "done"
\* a build that goes on after a failure
BpcAfterFailGoesOn == bpc
\* build.js:403-406: a failure that reaches build() ends the process with
\* status 1
BpcAfterFail == "exited"
\* a validation that no flag overrides
ValidationFatalAlways(valid, force) == ~valid
\* build.js:93-100: a failed validation throws unless FORCE_BUILD is set
ValidationFatal(valid, force) == ~valid /\ ~force

\* a build that empties its output directory before it starts
OutAtStartEmptied == {}
\* build.js:354-360: mkdir(dir, {recursive: true}) leaves what is in the
\* directories
OutAtStart == out
\* build.js:348-360: build() is called; the output directories are made
BuildStart ==
  /\ bpc = "idle"
  /\ bpc' = "dirs"
  /\ work' = {}
  /\ wrote' = {}
  /\ startedWarm' = warm
  /\ jsSt' = "idle" /\ jsRes' = <<>>
  /\ cssSt' = "idle"
  /\ cssRead' = 0 /\ cssRes' = NoResult
  /\ imgPhase' = "idle"
  /\ imgSt' = [f \in Images |-> "idle"]
  /\ imgKey' = [f \in Images |-> 0]
  /\ imgRes' = [f \in Images |-> NoResult]
  /\ page' = NoPage
  /\ validation' = NoValidation
  /\ cause' = "none"
  /\ out' = OutAtStart
  /\ UNCHANGED <<bcache, srcCss, srcImg, warm>>
  /\ UNCHANGED nonBuildVars

\* build.js:363-371: the three pipelines are called in one turn.
\* bundleJavaScript starts esbuild (build.js:105-133, no cache lookup);
\* processCss looks its key up and returns the cached name or starts reading
\* (build.js:148-161); processImages starts its glob (build.js:190-196).
BuildPipelines ==
  /\ bpc = "dirs"
  /\ bpc' = "pipelines"
  /\ jsSt' = "bundling"
  /\ IF BCacheHas(CssCacheKey)
       THEN cssSt' = "done" /\ cssRes' = BCacheGet(CssCacheKey)
       ELSE cssSt' = "reading" /\ cssRes' = NoResult
  /\ imgPhase' = "glob"
  /\ UNCHANGED <<bcache, srcCss, srcImg, jsRes, cssRead, imgSt, imgKey,
                 imgRes, page, validation, cause, work, wrote, out, warm,
                 startedWarm>>
  /\ UNCHANGED nonBuildVars

\* build.js:109-133: esbuild.build resolves: the bundle has been made and
\* written to assets/js
JsBundle ==
  /\ bpc = "pipelines" /\ jsSt = "bundling"
  /\ jsSt' = "analysis"
  /\ work' = work \cup {Transform("js", 0)}
  /\ wrote' = wrote \cup {Artifact("js", 0)}
  /\ out' = out \cup {Artifact("js", 0)}
  /\ UNCHANGED <<bcache, srcCss, srcImg, bpc, jsRes, cssSt, cssRead, cssRes,
                 imgPhase, imgSt, imgKey, imgRes, page, validation, cause,
                 warm, startedWarm>>
  /\ UNCHANGED nonBuildVars

\* build.js:135-140: bundle-analysis.txt is written; the result is returned
JsAnalysis ==
  /\ bpc = "pipelines" /\ jsSt = "analysis"
  /\ jsSt' = "done"
  /\ jsRes' = JsOutputs
  /\ wrote' = wrote \cup {Artifact("analysis", 0)}
  /\ out' = out \cup {Artifact("analysis", 0)}
  /\ UNCHANGED <<bcache, srcCss, srcImg, bpc, cssSt, cssRead, cssRes,
                 imgPhase, imgSt, imgKey, imgRes, page, validation, cause,
                 work, warm, startedWarm>>
  /\ UNCHANGED nonBuildVars

\* build.js:159-161: the style sources are read
CssRead ==
  /\ bpc = "pipelines" /\ cssSt = "reading"
  /\ cssSt' = "postcss"
  /\ cssRead' = srcCss
  /\ UNCHANGED <<bcache, srcCss, srcImg, bpc, jsSt, jsRes, cssRes, imgPhase,
                 imgSt, imgKey, imgRes, page, validation, cause, work, wrote,
                 out, warm, startedWarm>>
  /\ UNCHANGED nonBuildVars

\* build.js:163-179: postcss has processed what was read; the file is named
\* after the hash of the result and its write begins
CssTransform ==
  /\ bpc = "pipelines" /\ cssSt = "postcss"
  /\ cssSt' = "write"
  /\ cssRes' = CssFileName(cssRead)
  /\ work' = work \cup {Transform("css", 0)}
  /\ UNCHANGED <<bcache, srcCss, srcImg, bpc, jsSt, jsRes, cssRead, imgPhase,
                 imgSt, imgKey, imgRes, page, validation, cause, wrote, out,
                 warm, startedWarm>>
  /\ UNCHANGED nonBuildVars

\* build.js:176-182: the file is written; cache.set(cacheKey, fileName)
CssWrite ==
  /\ bpc = "pipelines" /\ cssSt = "write"
  /\ cssSt' = "done"
  /\ bcache' = BCacheSet(bcache, CssCacheKey, cssRes)
  /\ wrote' = wrote \cup {Artifact("css", 0)}
  /\ out' = out \cup {Artifact("css", 0)}
  /\ UNCHANGED <<srcCss, srcImg, bpc, jsSt, jsRes, cssRead, cssRes, imgPhase,
                 imgSt, imgKey, imgRes, page, validation, cause, work, warm,
                 startedWarm>>
  /\ UNCHANGED nonBuildVars

\* build.js:194-199,251: the glob resolves; p-map starts the first mappers,
\* each of which begins with fs.stat
ImgGlob ==
  /\ bpc = "pipelines" /\ imgPhase = "glob"
  /\ imgPhase' = "map"
  /\ \E first \in SUBSET Images :
       /\ Cardinality(first) = IF Cardinality(Images) < Concurrency
                                 THEN Cardinality(Images) ELSE Concurrency
       /\ \A f \in first, g \in Images \ first : f <= g
       /\ imgSt' = [f \in Images |-> IF f \in first THEN "stat" ELSE "queued"]
  /\ UNCHANGED <<bcache, srcCss, srcImg, bpc, jsSt, jsRes, cssSt, cssRead,
                 cssRes, imgKey, imgRes, page, validation, cause, work,
                 wrote, out, warm, startedWarm>>
  /\ UNCHANGED nonBuildVars

\* build.js:199-209: stat resolves; the key is looked up; a hit is the
\* mapper's result, a miss goes on to sharp's metadata
ImgStat(f) ==
  /\ bpc = "pipelines" /\ imgSt[f] = "stat"
  /\ LET k == ImgCacheKey(f, srcImg[f]) IN
       IF BCacheHas(k)
         THEN /\ imgRes' = [imgRes EXCEPT ![f] = BCacheGet(k)]
              /\ imgSt' = Started([imgSt EXCEPT ![f] = "done"])
         ELSE /\ imgRes' = imgRes
              /\ imgSt' = [imgSt EXCEPT ![f] = "meta"]
  /\ imgKey' = [imgKey EXCEPT ![f] = srcImg[f]]
  /\ UNCHANGED <<bcache, srcCss, srcImg, bpc, jsSt, jsRes, cssSt, cssRead,
                 cssRes, imgPhase, page, validation, cause, work, wrote, out,
                 warm, startedWarm>>
  /\ UNCHANGED nonBuildVars

\* build.js:209-229: the metadata resolves; the resizes and encodes begin
ImgMeta(f) ==
  /\ bpc = "pipelines" /\ imgSt[f] = "meta"
  /\ imgSt' = [imgSt EXCEPT ![f] = "encode"]
  /\ UNCHANGED <<bcache, srcCss, srcImg, bpc, jsSt, jsRes, cssSt, cssRead,
                 cssRes, imgPhase, imgKey, imgRes, page, validation, cause,
                 work, wrote, out, warm, startedWarm>>
  /\ UNCHANGED nonBuildVars

\* build.js:211-250: every version is written; the result is stored under
\* the key computed before and returned
ImgEncoded(f) ==
  /\ bpc = "pipelines" /\ imgSt[f] = "encode"
  /\ LET r == ImgResults[f][srcImg[f]] IN
       /\ bcache' = BCacheSet(bcache, ImgCacheKey(f, imgKey[f]), r)
       /\ imgRes' = [imgRes EXCEPT ![f] = r]
  /\ imgSt' = Started([imgSt EXCEPT ![f] = "done"])
  /\ work' = work \cup {Transform("image", f)}
  /\ wrote' = wrote \cup {Artifact("image", f)}
  /\ out' = out \cup {Artifact("image", f)}
  /\ UNCHANGED <<srcCss, srcImg, bpc, jsSt, jsRes, cssSt, cssRead, cssRes,
                 imgPhase, imgKey, page, validation, cause, warm,
                 startedWarm>>
  /\ UNCHANGED nonBuildVars

\* build.js:253-262: every mapper has returned; the manifest is written
ImgManifest ==
  /\ bpc = "pipelines" /\ imgPhase = "map"
  /\ \A f \in Images : imgSt[f] = "done"
  /\ imgPhase' = "done"
  /\ wrote' = wrote \cup {Artifact("manifest", 0)}
  /\ out' = out \cup {Artifact("manifest", 0)}
  /\ UNCHANGED <<bcache, srcCss, srcImg, bpc, jsSt, jsRes, cssSt, cssRead,
                 cssRes, imgSt, imgKey, imgRes, page, validation, cause,
                 work, warm, startedWarm>>
  /\ UNCHANGED nonBuildVars

\* build.js:367-378,270-326: all three have resolved; generateHtml is called
\* with what they returned and renders the page; the preload hints read
\* versions[0].width of every manifest entry (build.js:297-298), which throws
\* for an entry without versions; otherwise the validator is started
HtmlRender ==
  /\ bpc = "pipelines"
  /\ PipelinesSettled
  /\ page' = [css |-> cssRes.name, js |-> jsRes,
              manifest |-> [f \in Images |-> imgRes[f].versions]]
  /\ IF \E f \in Images : imgRes[f].versions = <<>>
       THEN bpc' = BpcAfterFail /\ cause' = "render" /\ warm' = FALSE
       ELSE bpc' = "validate" /\ cause' = cause /\ warm' = warm
  /\ UNCHANGED <<bcache, srcCss, srcImg, jsSt, jsRes, cssSt, cssRead, cssRes,
                 imgPhase, imgSt, imgKey, imgRes, validation, work, wrote,
                 out, startedWarm>>
  /\ UNCHANGED nonBuildVars

\* build.js:86-101,326: the validator's answer; a failure is fatal unless
\* process.env.FORCE_BUILD is set
HtmlValidated(valid, force) ==
  /\ bpc = "validate"
  /\ validation' = [valid |-> valid, force |-> force, asked |-> TRUE]
  /\ IF ValidationFatal(valid, force)
       THEN bpc' = BpcAfterFail /\ cause' = "validation" /\ warm' = FALSE
       ELSE bpc' = "write" /\ cause' = cause /\ warm' = warm
  /\ UNCHANGED <<bcache, srcCss, srcImg, jsSt, jsRes, cssSt, cssRead, cssRes,
                 imgPhase, imgSt, imgKey, imgRes, page, work, wrote, out,
                 startedWarm>>
  /\ UNCHANGED nonBuildVars

\* build.js:328-345: the page is minified and index.html is written
HtmlWrite ==
  /\ bpc = "write"
  /\ bpc' = "report"
  /\ wrote' = wrote \cup {Artifact("page", 0)}
  /\ out' = out \cup {Artifact("page", 0)}
  /\ UNCHANGED <<bcache, srcCss, srcImg, jsSt, jsRes, cssSt, cssRead, cssRes,
                 imgPhase, imgSt, imgKey, imgRes, page, validation, cause,
                 work, warm, startedWarm>>
  /\ UNCHANGED nonBuildVars

\* build.js:380-401: the report is written and build() resolves
BuildReport ==
  /\ bpc = "report"
  /\ bpc' = "idle"
  /\ warm' = TRUE
  /\ wrote' = wrote \cup {Artifact("report", 0)}
  /\ out' = out \cup {Artifact("report", 0)}
  /\ UNCHANGED <<bcache, srcCss, srcImg, jsSt, jsRes, cssSt, cssRead, cssRes,
                 imgPhase, imgSt, imgKey, imgRes, page, validation, cause,
                 work, startedWarm>>
  /\ UNCHANGED nonBuildVars

\* the awaited operation of stage c that can throw is pending
CanFail(c) ==
  CASE c = "dirs" -> bpc = "dirs"
    [] c = "js" -> bpc = "pipelines" /\ jsSt \in {"bundling", "analysis"}
    [] c = "css" -> bpc = "pipelines" /\ cssSt \in {"reading", "postcss", "write"}
    [] c = "image" -> bpc = "pipelines" /\ imgPhase \in {"glob", "map"}
    [] c = "page" -> bpc = "write"
    [] c = "report" -> bpc = "report"
FailCauses == {"dirs", "js", "css", "image", "page", "report"}
\* build.js:141-144,183-186,263-266,403-406: an operation of stage c throws;
\* the pipeline rethrows, the Promise.all rejects, build() logs the error and
\* calls process.exit(1), all in the same turn
BuildFail(c) ==
  /\ CanFail(c)
  /\ jsSt' = IF c = "js" THEN "failed" ELSE jsSt
  /\ cssSt' = IF c = "css" THEN "failed" ELSE cssSt
  /\ imgPhase' = IF c = "image" THEN "failed" ELSE imgPhase
  /\ bpc' = BpcAfterFail
  /\ cause' = c
  /\ warm' = FALSE
  /\ UNCHANGED <<bcache, srcCss, srcImg, jsRes, cssRead, cssRes, imgSt,
                 imgKey, imgRes, page, validation, work, wrote, out,
                 startedWarm>>
  /\ UNCHANGED nonBuildVars

\* build.js:49-52,410-418: the module is loaded in a new process
BuildNewProcess ==
  /\ bpc \in {"idle", "exited"}
  /\ bcache # {} \/ bpc = "exited"
  /\ bpc' = "idle"
  /\ bcache' = {}
  /\ warm' = FALSE
  /\ UNCHANGED <<srcCss, srcImg, jsSt, jsRes, cssSt, cssRead, cssRes,
                 imgPhase, imgSt, imgKey, imgRes, page, validation, cause,
                 work, wrote, out, startedWarm>>
  /\ UNCHANGED nonBuildVars

\* an entry of `cache` outlives its ttl (build.js:51), between two builds
BuildCacheExpire ==
  /\ bpc = "idle"
  /\ \E e \in bcache : bcache' = bcache \ {e}
  /\ warm' = FALSE
  /\ UNCHANGED <<srcCss, srcImg, bpc, jsSt, jsRes, cssSt, cssRead, cssRes,
                 imgPhase, imgSt, imgKey, imgRes, page, validation, cause,
                 work, wrote, out, startedWarm>>
  /\ UNCHANGED nonBuildVars

\* the style source is edited, between two builds: its mtime moves on
TouchCss ==
  /\ bpc = "idle"
  /\ \E t \in Stamps : t > srcCss /\ srcCss' = t
  /\ warm' = FALSE
  /\ UNCHANGED <<bcache, srcImg, bpc, jsSt, jsRes, cssSt, cssRead, cssRes,
                 imgPhase, imgSt, imgKey, imgRes, page, validation, cause,
                 work, wrote, out, startedWarm>>
  /\ UNCHANGED nonBuildVars

\* an image is replaced, between two builds: its mtime moves on
TouchImg(f) ==
  /\ bpc = "idle"
  /\ \E t \in Stamps : t > srcImg[f] /\ srcImg' = [srcImg EXCEPT ![f] = t]
  /\ warm' = FALSE
  /\ UNCHANGED <<bcache, srcCss, bpc, jsSt, jsRes, cssSt, cssRead, cssRes,
                 imgPhase, imgSt, imgKey, imgRes, page, validation, cause,
                 work, wrote, out, startedWarm>>
  /\ UNCHANGED nonBuildVars

BuildNext ==
  \/ BuildStart
  \/ BuildPipelines
  \/ JsBundle
  \/ JsAnalysis
  \/ CssRead
  \/ CssTransform
  \/ CssWrite
  \/ ImgGlob
  \/ \E f \in Images : ImgStat(f)
  \/ \E f \in Images : ImgMeta(f)
  \/ \E f \in Images : ImgEncoded(f)
  \/ ImgManifest
  \/ HtmlRender
  \/ \E valid, force \in BOOLEAN : HtmlValidated(valid, force)
  \/ HtmlWrite
  \/ BuildReport
  \/ \E c \in FailCauses : BuildFail(c)
  \/ BuildNewProcess
  \/ BuildCacheExpire
  \/ TouchCss
  \/ \E f \in Images : TouchImg(f)

\* a process that has loaded build.js
InitBuild == CacheInit /\ KeyInitIdle /\ BuildInit /\ SizesInitIdle /\ PMapInitIdle
  /\ NamesInitIdle
  /\ ValidatorInitIdle
  /\ CssInitIdle
  /\ GameInit
SpecBuild == InitBuild /\ [][BuildNext]_vars

\* C11 (as claimed): two identifiers that name the same existing file, keyed
\* with the same kind while the file is unchanged, get the same key.
KeyFromAbsolutePath ==
  \A a, b \in klog :
    (/\ Resolve(a.input) = Resolve(b.input)
     /\ kfs[Resolve(a.input)] > 0
     /\ a.type = b.type
     /\ a.key # KeyThrew /\ b.key # KeyThrew) => a.key = b.key

\* C26 (as claimed): a key derived for an existing file is the key of no
\* literal content, whatever the content and the kind it is keyed with.
FileKeyIsNoContentKey ==
  \A e \in klog :
    (kfs[Resolve(e.input)] > 0 /\ e.key # KeyThrew) =>
      \A content \in Idents, type \in Kinds :
        Md5(HashedString(content, FALSE, 0, type, e.run)) # e.key

\* ======================================================== claims: build.js
\* the build in progress, or the last one, has ended with process.exit(1)
Aborted == cause # "none"
\* the build in progress, or the last one, has run to its end
Completed == bpc = "idle" /\ cause = "none" /\ Artifact("report", 0) \in wrote

\* C14 (as claimed): an image none of whose configured widths fits is in the
\* manifest with an empty version list, and page generation does not fail
\* on account of it.
EmptyVersionsNotAnError ==
  /\ \A f \in Images :
       (imgSt[f] = "done" /\ SrcDims(imgRes[f].from).w < ConfigSizes[1]) =>
         imgRes[f].versions = <<>>
  /\ cause # "render"

\* C17: when one of the three pipelines has failed, the process has ended
\* with a non-zero status, generateHtml has not been called, and neither the
\* page nor the report has been written by this build.
PipelineFailureAborts ==
  (jsSt = "failed" \/ cssSt = "failed" \/ imgPhase = "failed") =>
    /\ Aborted /\ bpc \in {"exited", "idle"}
    /\ page = NoPage
    /\ Artifact("page", 0) \notin wrote
    /\ Artifact("report", 0) \notin wrote
\* the style pipeline failed after the other two had returned
PipelineFailureWitness ==
  /\ cssSt = "failed" /\ jsSt = "done" /\ imgPhase = "done"
  /\ bpc = "exited"

\* C18 (as claimed): when the script pipeline alone has failed and the build
\* has aborted, the outputs of the style and image pipelines are on disk.
OtherOutputsPresent ==
  (bpc = "exited" /\ cause = "js") =>
    /\ Artifact("css", 0) \in out
    /\ \A f \in Images : Artifact("image", f) \in out

\* C23: when processImages has returned, the files of every image that has
\* versions in the manifest are in the output directory, whether this run
\* rendered them or took the entry from the cache.
ManifestOnDisk ==
  imgPhase = "done" =>
    \A f \in Images :
      imgRes[f].versions # <<>> => Artifact("image", f) \in out
\* an image pipeline run that returned a cached entry for an image and
\* rendered nothing for it
ReusedVersionsWitness ==
  /\ imgPhase = "done"
  /\ \E f \in Images :
       /\ imgRes[f].versions # <<>>
       /\ Transform("image", f) \notin work
       /\ Artifact("image", f) \notin wrote
       /\ Artifact("image", f) \in out

\* C19: generateHtml is called only when all three pipelines have returned,
\* with the file name, the output list and the manifest they returned; the
\* report is written only by a build whose page was validated and written.
PageAfterPipelinesReportAfterPage ==
  /\ (page # NoPage \/ bpc \in {"validate", "write", "report"}) =>
       /\ jsSt = "done" /\ cssSt = "done" /\ imgPhase = "done"
       /\ page = [css |-> cssRes.name, js |-> jsRes,
                   manifest |-> [f \in Images |-> imgRes[f].versions]]
  /\ bpc = "report" => Artifact("page", 0) \in wrote
  /\ Artifact("report", 0) \in wrote =>
       /\ Artifact("page", 0) \in wrote
       /\ validation.asked
       /\ ~ValidationFatal(validation.valid, validation.force)
\* a build has run to its end: page generated from the three results, then
\* the report
CompletedWitness ==
  /\ Completed
  /\ page.css = cssRes.name /\ page.css # <<>>
  /\ page.js = jsRes /\ jsRes = JsOutputs
  /\ \A f \in Images : page.manifest[f] # <<>>

\* C20: a failed validation without FORCE_BUILD ends the build with a
\* non-zero status before the page or the report is written; with
\* FORCE_BUILD the build goes on, and when it runs to its end the page and
\* the report have been written.
ValidationFatalUnlessForced ==
  /\ (validation.asked /\ ~validation.valid /\ ~validation.force) =>
       /\ cause = "validation" /\ bpc \in {"exited", "idle"}
       /\ Artifact("page", 0) \notin wrote
       /\ Artifact("report", 0) \notin wrote
  /\ (validation.asked /\ ~validation.valid /\ validation.force) =>
       /\ cause # "validation"
       /\ bpc \in {"write", "report"} \/ Aborted \/ Completed
       /\ Completed => Artifact("page", 0) \in wrote
\* a build whose validation failed ran to its end under FORCE_BUILD
ForcedWitness ==
  /\ validation.asked /\ ~validation.valid /\ validation.force
  /\ Completed /\ Artifact("page", 0) \in wrote

\* C3: a build that was called after a completed build, with no input
\* changed and no cache entry lost in between, performs no transform.
WarmBuildDoesNoWork ==
  (bpc = "idle" /\ startedWarm) => work = {}

\* ====================================================== claims: BuildCache
\* a call by a caller returned in the step just taken, having run alone
ReturnedAlone(op) == last.op = op /\ last.was.who = last.who /\ last.who # "none"

\* C1: with no other cache operation in flight, get(key, validator) returns
\* the memory entry if there is one; otherwise, when <key>.json holds an
\* entry, a rejecting validator leaves the key in neither tier and get
\* returns a miss, an accepting one leaves the entry in memory and get
\* returns it; when neither tier has the key, get returns a miss and both
\* tiers are as they were.
GetContract ==
  (ReturnedAlone("get") /\ ~last.fault) =>
    LET k == last.key
        was == last.was IN
    IF MemHas(was.mem, k)
      THEN last.ret = MemVal(was.mem, k)
      ELSE IF was.disk[k].tag = "entry"
        THEN /\ last.verdict \in {"accept", "reject"}
             /\ last.verdict = "reject" =>
                  /\ last.ret = Miss
                  /\ ~MemHas(mem, k)
                  /\ disk[k] = Absent
             /\ last.verdict = "accept" =>
                  /\ last.ret = was.disk[k]
                  /\ MemHas(mem, k)
                  /\ MemVal(mem, k) = was.disk[k]
                  /\ disk = was.disk
        ELSE /\ last.ret = Miss
             /\ mem = was.mem
             /\ disk = was.disk
\* a get, alone, found the key on disk only, the validator accepted, and the
\* entry is now in memory as well
GetContractWitnessAccept ==
  /\ ReturnedAlone("get") /\ ~last.fault
  /\ ~MemHas(last.was.mem, last.key)
  /\ last.verdict = "accept"
  /\ last.ret = disk[last.key]
  /\ MemHas(mem, last.key)

\* C2 (as claimed): a get that is given the mtime validator, or that returns
\* before it consults the validator it was given, never returns an entry
\* whose recorded timestamp differs from the current mtime of its source.
StaleEntryNeverHit ==
  (last.op = "get" /\ last.ret \in Entries
     /\ last.validator \in {"mtime", "unused"}) =>
    last.ret.ts = mtime

\* C4 (as claimed): every key in memory has a file on disk, except keys whose
\* memory entry was put there by set() in this process.
MemoryBackedByDisk ==
  \A k \in Keys : MemHas(mem, k) => (Present(disk[k]) \/ written[k] # Absent)

\* C5 (as claimed): set() returns normally whatever the disk write did; a
\* failed write, with nothing else in flight, leaves <key>.json without the
\* new entry (the old file, or a truncated one); and a get(key) after such a
\* set returns the entry that set() put in memory.
SetIsBestEffort ==
  /\ last.op = "set" => last.ret = Done
  /\ (ReturnedAlone("set") /\ last.fault) =>
       disk[last.key] \in {last.was.disk[last.key], Corrupt}
  /\ (last.op = "get" /\ last.key \in failed) => last.ret = written[last.key]

\* C27 (as claimed): the entry set() put in memory under a key is the entry
\* memory holds under that key, until a delete, a clear, an expiry or an
\* eviction takes the key out of memory.
ReadYourWrites ==
  \A k \in Keys :
    written[k] # Absent => (MemHas(mem, k) /\ MemVal(mem, k) = written[k])

\* C6: with no other cache operation in flight, a delete(key) that completes
\* leaves key in neither tier and every other key as it was in both tiers; a
\* clear() that completes leaves both tiers empty.
DeleteAndClearContract ==
  /\ (ReturnedAlone("delete") /\ last.ret = Done) =>
       /\ ~MemHas(mem, last.key)
       /\ disk[last.key] = Absent
       /\ mem = MemDelete(last.was.mem, last.key)
       /\ \A k \in Keys \ {last.key} : disk[k] = last.was.disk[k]
  /\ (ReturnedAlone("clear") /\ last.ret = Done) =>
       /\ mem = <<>>
       /\ \A k \in Keys : disk[k] = Absent
\* a delete, alone, completed, and the other key is still in both tiers
DeleteWitness ==
  /\ ReturnedAlone("delete") /\ last.ret = Done
  /\ Present(last.was.disk[last.key])
  /\ \E k \in Keys \ {last.key} : MemHas(mem, k) /\ Present(disk[k])

\* C7: a loadCache() that ran from construction to its end with no call in
\* between has put every readable <key>.json into memory under its key (the
\* ceiling and the ttl may have taken some out again), and nothing else: a
\* corrupt file is passed over and the files after it are still loaded.
LoadCacheLoadsReadable ==
  (last.who = "loader" /\ last.was.who = "loader") =>
    /\ loader.pc = "done"
    /\ \A k \in Keys :
         /\ MemHas(mem, k) => (disk[k].tag = "entry" /\ MemVal(mem, k) = disk[k])
         /\ disk[k].tag = "entry" => (MemHas(mem, k) \/ k \in evicted)
\* the scan ended with a corrupt file in cacheDir and a readable one loaded
LoadCacheWitness ==
  /\ last.who = "loader" /\ last.was.who = "loader"
  /\ \E k1, k2 \in Keys :
       /\ disk[k1] = Corrupt
       /\ MemHas(mem, k2) /\ MemVal(mem, k2) = disk[k2]

\* C8: get never throws, and a get that met a disk failure (a file it could
\* not read, a validator that threw, a removal that failed) reports a miss.
GetNeverThrows ==
  last.op = "get" => (last.ret # Threw /\ (last.fault => last.ret = Miss))
\* a get whose validator rejected and whose removal of the file then failed
GetFaultWitness ==
  /\ last.op = "get" /\ last.fault /\ last.verdict = "reject"
  /\ last.ret = Miss
  /\ Present(disk[last.key])

\* C9: a step that takes a file out of cacheDir is the fs.remove of a
\* delete(), the emptyDir of a clear(), or the fs.remove of a get() whose
\* validator rejected the entry; a step in which the ceiling or the ttl
\* takes a key out of memory leaves cacheDir as it was.
RemovalStep(k) ==
  \E p \in Callers :
    \/ calls[p].key = k /\ DeleteRemove(p)
    \/ ClearEmpty(p)
    \/ calls[p].key = k /\ calls[p].verdict = "reject" /\ GetRemove(p)
NoDiskEviction ==
  [][/\ \A k \in Keys : (Present(disk[k]) /\ ~Present(disk'[k])) => RemovalStep(k)
     /\ (evicted' \ evicted # {}) => disk' = disk]_vars
\* a key the ceiling or the ttl took out of memory still has its file
EvictedStillOnDisk ==
  \E k \in evicted : ~MemHas(mem, k) /\ disk[k].tag = "entry"

\* ========================================= processImages: the file mapper
\* build.js:198-262: pMap(files, mapper, {concurrency}) and the manifest
\* made of what it resolves with.
MaxFiles == 6       \* files the glob may return
\* the concurrency of build.js:251, and a run one file at a time
PmLimits == {1, Concurrency}
PmFileSet == 1..pmFiles
\* the files whose mapper has been called and has not returned: it is
\* "running" up to sharp's metadata and "encoding" from then on
InProgress == {i \in PmFileSet : pmSt[i] \in {"running", "encoding"}}
\* build.js:244-247: what the mapper returns for file i; the files of odd
\* index are 2000x1000 pictures, those of even index 500x250
PmValues ==
  [i \in 1..MaxFiles |->
     [original |-> ImgResult(i, i).name, versions |-> ImgResult(i, i).versions]]
PmValue(i) == PmValues[i]
\* a start of every mapper at once
PmInitialBatchAll(n, limit) == n
\* build.js:198,251: p-map starts mappers on the first files, as many as
\* the concurrency allows
PmInitialBatch(n, limit) == IF n < limit THEN n ELSE limit
\* results kept in the order the mappers finished
PmStoreAsFinished(results, i, pos, v) == [results EXCEPT ![pos] = v]
\* build.js:198: p-map keeps the value of the mapper of the i-th file at
\* index i of the array it resolves with
PmStore(results, i, pos, v) == [results EXCEPT ![i] = v]
\* build.js:253-255: Object.fromEntries(results.map(...)): one entry per
\* result, the keys in the order of the results
ManifestOfResults(results) ==
  [k \in 1..Len(results) |-> <<results[k].original, results[k].versions>>]

PMapInit ==
  /\ pmFiles \in 0..MaxFiles
  /\ pmLimit \in PmLimits
  /\ pmPhase = "idle"
  /\ pmSt = [i \in PmFileSet |-> "waiting"]
  /\ pmPending = [i \in PmFileSet |-> 0]
  /\ pmResults = [i \in PmFileSet |-> [original |-> <<>>, versions |-> <<>>]]
  /\ pmOrder = <<>>
  /\ pmManifest = <<>>

\* build.js:190-198,251: the glob has returned and pMap is called: the first
\* mappers start; with no file there is nothing to wait for
PmStart ==
  /\ pmPhase = "idle"
  /\ pmPhase' = IF pmFiles = 0 THEN "mapped" ELSE "map"
  /\ pmSt' = [i \in PmFileSet |->
                IF i <= PmInitialBatch(pmFiles, pmLimit)
                  THEN "running" ELSE "waiting"]
  /\ UNCHANGED <<pmFiles, pmLimit, pmPending, pmResults, pmOrder, pmManifest>>
  /\ UNCHANGED nonPMapVars

\* build.js:208-238: the metadata of file i resolves; the two inner p-maps
\* are given no concurrency, so the mapper calls resize(..).toFile(..) for
\* every format and every width that fits before it awaits any of them
PmDispatch(i) ==
  /\ pmPhase = "map"
  /\ i \in PmFileSet /\ pmSt[i] = "running"
  /\ pmSt' = [pmSt EXCEPT ![i] = "encoding"]
  /\ pmPending' = [pmPending EXCEPT ![i] = Len(PmValue(i).versions)]
  /\ UNCHANGED <<pmFiles, pmLimit, pmPhase, pmResults, pmOrder, pmManifest>>
  /\ UNCHANGED nonPMapVars

\* build.js:223-229: one toFile of file i settles: the file is written;
\* the others of the same mapper are still pending
PmToFile(i) ==
  /\ pmPhase = "map"
  /\ i \in PmFileSet /\ pmSt[i] = "encoding" /\ pmPending[i] > 0
  /\ pmPending' = [pmPending EXCEPT ![i] = @ - 1]
  /\ UNCHANGED <<pmFiles, pmLimit, pmPhase, pmSt, pmResults, pmOrder,
                 pmManifest>>
  /\ UNCHANGED nonPMapVars

\* build.js:198-251: every toFile of file i has settled and its mapper
\* returns: p-map keeps its value and starts the mapper of the next file not
\* yet started, if there is one; when no mapper is left it resolves
PmFinish(i) ==
  /\ pmPhase = "map"
  /\ i \in PmFileSet /\ pmSt[i] = "encoding" /\ pmPending[i] = 0
  /\ pmResults' = PmStore(pmResults, i, Len(pmOrder) + 1, PmValue(i))
  /\ pmOrder' = Append(pmOrder, i)
  /\ LET waiting == {j \in PmFileSet : pmSt[j] = "waiting"} IN
       /\ pmSt' = [j \in PmFileSet |->
                     IF j = i THEN "done"
                     ELSE IF j \in waiting /\ \A g \in waiting : j <= g
                       THEN "running"
                     ELSE pmSt[j]]
       /\ pmPhase' = IF waiting = {} /\ InProgress = {i}
                       THEN "mapped" ELSE "map"
  /\ UNCHANGED <<pmFiles, pmLimit, pmPending, pmManifest>>
  /\ UNCHANGED nonPMapVars

\* build.js:198-251,263-266: the mapper of file i throws, as stat or the
\* metadata rejects or as one of its toFile does: p-map rejects and starts
\* no other mapper; processImages rethrows
PmFail(i) ==
  /\ pmPhase = "map"
  /\ i \in PmFileSet
  /\ \/ pmSt[i] = "running" /\ pmPending' = pmPending
     \/ /\ pmSt[i] = "encoding" /\ pmPending[i] > 0
        /\ pmPending' = [pmPending EXCEPT ![i] = @ - 1]
  /\ pmSt' = [pmSt EXCEPT ![i] = "failed"]
  /\ pmPhase' = "failed"
  /\ UNCHANGED <<pmFiles, pmLimit, pmResults, pmOrder, pmManifest>>
  /\ UNCHANGED nonPMapVars

\* build.js:253-262: the manifest is made of the results, written and
\* returned
PmManifest ==
  /\ pmPhase = "mapped"
  /\ pmManifest' = ManifestOfResults(pmResults)
  /\ pmPhase' = "done"
  /\ UNCHANGED <<pmFiles, pmLimit, pmSt, pmPending, pmResults, pmOrder>>
  /\ UNCHANGED nonPMapVars

PMapNext ==
  \/ PmStart
  \/ \E i \in 1..MaxFiles : PmDispatch(i)
  \/ \E i \in 1..MaxFiles : PmToFile(i)
  \/ \E i \in 1..MaxFiles : PmFinish(i)
  \/ \E i \in 1..MaxFiles : PmFail(i)
  \/ PmManifest

\* a run of the image pipeline on its own
InitPMap == CacheInit /\ KeyInitIdle /\ BuildInit /\ SizesInitIdle /\ PMapInit
  /\ NamesInitIdle
  /\ ValidatorInitIdle
  /\ CssInitIdle
  /\ GameInit
SpecPMap == InitPMap /\ [][PMapNext]_vars
\* p-map is called in the turn the glob returns, a mapper that was started
\* returns or throws, and the manifest is made in the turn p-map resolves
SpecPMapFair ==
  /\ SpecPMap
  /\ WF_vars(PmStart)
  /\ \A i \in 1..MaxFiles : WF_vars(PmDispatch(i) \/ PmFail(i))
  /\ \A i \in 1..MaxFiles : WF_vars(PmToFile(i) \/ PmFail(i))
  /\ \A i \in 1..MaxFiles : WF_vars(PmFinish(i) \/ PmFail(i))
  /\ WF_vars(PmManifest)

\* C15: at most 4 mappers are in progress at any moment, and in a run where
\* no mapper throws the mapper of every file is started and returns.
BoundedAndComplete ==
  /\ [](Cardinality(InProgress) <= Concurrency)
  /\ <>(pmPhase = "failed"
        \/ (pmPhase = "done" /\ \A i \in PmFileSet : pmSt[i] = "done"))
\* more files than the bound: four mappers run, one has returned, one waits
BoundReachedWitness ==
  /\ pmLimit = Concurrency
  /\ Cardinality(InProgress) = Concurrency
  /\ \E i \in PmFileSet : pmSt[i] = "done"
  /\ \E i \in PmFileSet : pmSt[i] = "waiting"

\* the manifest of a run that maps the files one after the other, in the
\* glob's order
RECURSIVE ManifestInOrder(_)
ManifestInOrder(n) ==
  IF n = 0 THEN <<>>
  ELSE Append(ManifestInOrder(n - 1), <<PmValue(n).original, PmValue(n).versions>>)

\* C16: the manifest of a finished run is the one of a run one file at a
\* time in the glob's order, entries and key order, whatever the concurrency
\* and the order the mappers finished in.
ManifestIndependentOfScheduling ==
  pmPhase = "done" => pmManifest = ManifestInOrder(pmFiles)
\* a run with concurrency 4 whose mappers finished in another order than the
\* files'
OutOfOrderWitness ==
  /\ pmPhase = "done" /\ pmLimit = Concurrency /\ pmFiles >= 3
  /\ \E a, b \in 1..Len(pmOrder) : a < b /\ pmOrder[a] > pmOrder[b]
  /\ \E k \in 1..Len(pmManifest) : pmManifest[k][2] = <<>>
  /\ \E k \in 1..Len(pmManifest) : pmManifest[k][2] # <<>>

\* how many toFile the mappers of the files 1..n have called that have not
\* settled
RECURSIVE PendingUpTo(_)
PendingUpTo(n) == IF n = 0 THEN 0 ELSE PendingUpTo(n - 1) + pmPending[n]
\* the number of transforms (one image to one width and one format) that
\* have been started and are not done
TransformsInFlight == PendingUpTo(pmFiles)

\* C25 (as claimed): at no moment are more than 4 transforms in flight.
TransformsBounded == TransformsInFlight <= Concurrency

\* ============================================ processImages: output names
\* build.js:194-196,216-237: where the versions of the globbed files go.
\* A source path is <<directory, name, extension>>.
SrcFiles ==
  {<<d, n, e>> : d \in {"public/images/", "public/images/a/"},
                 n \in {"x", "y"}, e \in {".png", ".jpg"}}
\* path.extname(file)
ExtName(p) == p[3]
\* path.basename(file, ext): the last segment, without ext when it ends so
BaseName(p, ext) == IF p[3] = ext THEN p[2] ELSE <<p[2], p[3]>>
\* build.js:211-246: the versions of a source 2000x1000 picture
NmVersions(p) ==
  ImageVersions(BaseName(p, ExtName(p)), 2000, 1000, ConfigFormats,
                ConfigSizes)
\* build.js:218-221: the output files of every source
NmOutFilesOf ==
  [p \in SrcFiles |-> {NmVersions(p)[k].file : k \in 1..Len(NmVersions(p))}]
NmOutFiles(p) == NmOutFilesOf[p]
\* toFile(outputFile) of source p settles: the file f is made, or replaced
DiskAfterToFile(d, p, f) ==
  {e \in d : e.file # f} \cup {[file |-> f, from |-> p]}

NamesInit ==
  /\ nmFiles \in {<<p, q>> : p, q \in SrcFiles}
  /\ nmFiles[1] # nmFiles[2]
  /\ nmCalled = {}
  /\ nmPending = [i \in DOMAIN nmFiles |-> {}]
  /\ nmDone = {}
  /\ nmDisk = {}

\* build.js:208-229: the metadata of the i-th file resolves and its mapper
\* calls toFile for every version (both files' mappers are started by
\* p-map at once, build.js:198,251)
NmDispatch(i) ==
  /\ i \in DOMAIN nmFiles /\ i \notin nmCalled
  /\ nmCalled' = nmCalled \cup {i}
  /\ nmPending' = [nmPending EXCEPT ![i] = NmOutFiles(nmFiles[i])]
  /\ UNCHANGED <<nmFiles, nmDone, nmDisk>>
  /\ UNCHANGED nonNamesVars

\* build.js:223-229: one toFile of the i-th file settles: its file is
\* written
NmToFile(i, f) ==
  /\ i \in DOMAIN nmFiles /\ f \in nmPending[i]
  /\ nmPending' = [nmPending EXCEPT ![i] = @ \ {f}]
  /\ nmDisk' = DiskAfterToFile(nmDisk, nmFiles[i], f)
  /\ UNCHANGED <<nmFiles, nmCalled, nmDone>>
  /\ UNCHANGED nonNamesVars

\* build.js:231-248: every toFile of the i-th file has settled and its
\* mapper returns
NmReturn(i) ==
  /\ i \in nmCalled \ nmDone /\ nmPending[i] = {}
  /\ nmDone' = nmDone \cup {i}
  /\ UNCHANGED <<nmFiles, nmCalled, nmPending, nmDisk>>
  /\ UNCHANGED nonNamesVars

\* the next run, over other files and an empty output directory
NmNextRun ==
  /\ nmDone = DOMAIN nmFiles
  /\ nmFiles' \in {<<p, q>> : p, q \in SrcFiles}
  /\ nmFiles'[1] # nmFiles'[2]
  /\ nmCalled' = {}
  /\ nmPending' = [i \in DOMAIN nmFiles |-> {}]
  /\ nmDone' = {}
  /\ nmDisk' = {}
  /\ UNCHANGED nonNamesVars

NamesNext ==
  \/ \E i \in 1..2 : NmDispatch(i)
  \/ \E i \in 1..2 : \E f \in nmPending[i] : NmToFile(i, f)
  \/ \E i \in 1..2 : NmReturn(i)
  \/ NmNextRun

InitNames ==
  /\ ValidatorInitIdle
  /\ CssInitIdle
  /\ GameInit
  /\ CacheInit /\ KeyInitIdle /\ BuildInit /\ SizesInitIdle /\ PMapInitIdle
  /\ NamesInit
SpecNames == InitNames /\ [][NamesNext]_vars

\* C28 (as claimed): the versions of two distinct source images go to
\* distinct files, and when both mappers have written, the file every
\* version names is the one made of that version's own source.
OutputPathsDistinct ==
  nmDone = {1, 2} =>
    /\ NmOutFiles(nmFiles[1]) \cap NmOutFiles(nmFiles[2]) = {}
    /\ \A i \in nmDone : \A f \in NmOutFiles(nmFiles[i]) :
         [file |-> f, from |-> nmFiles[i]] \in nmDisk

\* ================================================== validators.imageCache
\* cache.js:140-149.  An entry is [original, hasVersions, timestamp]:
\* original <<>> and timestamp 0 stand for a field that is not there.
ViPaths == {<<"a.png">>, <<"b.png">>}
ViItems ==
  [original : ViPaths \cup {<<>>}, hasVersions : BOOLEAN,
   timestamp : 0..NumStamps]
\* a validator that does not look at the modification time
ImageCacheValidAnyTime(item, fs) ==
  IF item.original = <<>> \/ ~item.hasVersions THEN FALSE
  ELSE fs[item.original] > 0
\* cache.js:141-148: false without original or versions; false when stat
\* throws; otherwise stats.mtimeMs === item.timestamp
ImageCacheValid(item, fs) ==
  IF item.original = <<>> \/ ~item.hasVersions THEN FALSE
  ELSE IF fs[item.original] = 0 THEN FALSE
  ELSE fs[item.original] = item.timestamp

ValidatorInit ==
  /\ viItem \in ViItems
  /\ viFs \in [ViPaths -> 0..NumStamps]
  /\ viDone = FALSE
  /\ viVerdict = FALSE

\* cache.js:140-149: the validator is called on the entry and answers
ValidateImage ==
  /\ ~viDone
  /\ viVerdict' = ImageCacheValid(viItem, viFs)
  /\ viDone' = TRUE
  /\ UNCHANGED <<viItem, viFs>>
  /\ UNCHANGED nonValidatorVars

\* another entry, other files
ViNextInput ==
  /\ viDone
  /\ viItem' \in ViItems
  /\ viFs' \in [ViPaths -> 0..NumStamps]
  /\ viDone' = FALSE
  /\ viVerdict' = FALSE
  /\ UNCHANGED nonValidatorVars

ValidatorNext == ValidateImage \/ ViNextInput

InitValidator ==
  /\ CssInitIdle
  /\ GameInit
  /\ CacheInit /\ KeyInitIdle /\ BuildInit /\ SizesInitIdle /\ PMapInitIdle
  /\ NamesInitIdle
  /\ ValidatorInit
SpecValidator == InitValidator /\ [][ValidatorNext]_vars

\* C24: for an entry that records its source and its versions, the image
\* validator answers true exactly when the source file exists and its
\* mtimeMs is the recorded timestamp (an entry that lacks either field is
\* rejected); and its call changes neither the entry, nor the files, nor
\* either cache tier.
ImageValidatorContract ==
  /\ [](viDone =>
          IF viItem.original # <<>> /\ viItem.hasVersions
            THEN viVerdict <=> (/\ viFs[viItem.original] > 0
                                /\ viFs[viItem.original] = viItem.timestamp)
            ELSE ~viVerdict)
  /\ [][(viDone' /\ ~viDone) =>
          (viItem' = viItem /\ viFs' = viFs /\ mem' = mem /\ disk' = disk)]_vars
\* an entry was accepted: its source is there with the recorded mtime, and
\* another file has another mtime
ValidatorAcceptedWitness ==
  /\ viDone /\ viVerdict
  /\ viItem.hasVersions
  /\ viFs[viItem.original] = viItem.timestamp
  /\ \E p \in ViPaths : viFs[p] # viItem.timestamp

\* ================================================= processCss: cache keys
\* build.js:148-187 for any list of files, and the key of
\* processCssWithCache (cache.js:222-228).  A file name is the sequence of
\* its characters.
MaxCssCalls == 2    \* calls of processCss in one process
\* the file name '__proto__'
ProtoName == <<"_", "_", "p", "r", "o", "t", "o", "_", "_">>
CssNames == {<<"a">>, <<"b">>, <<"a", ":", "a">>, <<"1">>, <<"2">>, ProtoName}
\* the lists of distinct files processCss is given: one file, or two of
\* them in either order
CssPairs ==
  {{<<"a">>, <<"b">>}, {<<"a">>, <<"a", ":", "a">>}, {<<"1">>, <<"2">>},
   {<<"a">>, ProtoName}}
CssLists ==
  {<<p>> : p \in {<<"a">>, ProtoName}}
  \cup {pq \in CssNames \X CssNames : pq[1] # pq[2] /\ {pq[1], pq[2]} \in CssPairs}
FilesOf(files) == {files[i] : i \in DOMAIN files}
\* the other orderings of a list
Reorderings(files) ==
  {g \in CssLists : FilesOf(g) = FilesOf(files) /\ g # files}
\* Array.prototype.join(sep)
RECURSIVE Join(_, _)
Join(files, sep) ==
  IF files = <<>> THEN <<>>
  ELSE IF Len(files) = 1 THEN Head(files)
  ELSE Head(files) \o <<sep>> \o Join(Tail(files), sep)
\* a key made of the set of the files
CssKeyOfSet(files) == FilesOf(files)
\* build.js:151: files.join(':')
CssKeyOf(files) == Join(files, ":")
\* the names that are array indices, in ascending order
IndexNames == <<<<"1">>, <<"2">>>>
IsIndexName(n) == \E i \in DOMAIN IndexNames : IndexNames[i] = n
\* the own keys of `inputs` (cache.js:223-226) in the order JSON.stringify
\* visits them: the array indices ascending, then the others as inserted
KeyOrder(files) ==
  SelectSeq(IndexNames, LAMBDA n : n \in FilesOf(files))
  \o SelectSeq(files, LAMBDA n : ~IsIndexName(n) /\ n # ProtoName)
\* cache.js:223-226: inputs[file] = mtimeMs, for the files in their order and
\* the mtimes the stats answered; a later assignment replaces an earlier
\* one, and inputs['__proto__'] = mtimeMs makes no property: the setter of
\* Object.prototype.__proto__ leaves the object as it is when given a number
Inputs(files, mtimes) ==
  [n \in FilesOf(files) \ {ProtoName} |->
     mtimes[CHOOSE i \in DOMAIN files :
              files[i] = n /\ \A j \in DOMAIN files : j > i => files[j] # n]]
\* JSON.stringify of {file: mtimeMs, ...}
RECURSIVE JsonMembers(_, _)
JsonMembers(names, inputs) ==
  IF names = <<>> THEN <<>>
  ELSE <<"\"">> \o Head(names) \o <<"\"", ":">> \o Str(inputs[Head(names)])
       \o (IF Len(names) = 1 THEN <<>> ELSE <<",">>)
       \o JsonMembers(Tail(names), inputs)
Stringify(files, inputs) ==
  <<"{">> \o JsonMembers(KeyOrder(files), inputs) \o <<"}">>
\* cache.js:228: generateKey(JSON.stringify(inputs), 'css'); the string names
\* no file, so it is hashed as content
CssJsonKeyOf(files, inputs) ==
  Md5(HashedString(Stringify(files, inputs), FALSE, 0, "css", 0))
\* build.js:160-175: the file name made of the hash of the processed
\* contents of the files, each as it was read, in the order of the list
CssOutput(files, contents) == [of |-> files, content |-> contents]
\* a call of processCss or of processCssWithCache has yet to settle
CssInProgress ==
  scCall.pc \in {"read", "process", "write"} \/ scCall.kpc \in {"stat", "exists"}

CssInit ==
  /\ scContent = 1
  /\ scCache = {}
  /\ scEver = {}
  /\ scCall = NoCssCall
  /\ scCalls = 0

\* build.js:148-161: processCss(files) is called: a hit returns the cached
\* name, a miss calls readFile for every file
CssCall(files) ==
  /\ ~CssInProgress
  /\ scCalls < MaxCssCalls
  /\ scCalls' = scCalls + 1
  /\ LET k == CssKeyOf(files) IN
       scCall' =
         IF \E e \in scCache : e.key = k
           THEN [NoCssCall EXCEPT !.pc = "returned", !.files = files,
                   !.key = k, !.hit = TRUE,
                   !.ret = (CHOOSE e \in scCache : e.key = k).val]
           ELSE [NoCssCall EXCEPT !.pc = "read", !.files = files, !.key = k,
                   !.read = [i \in DOMAIN files |-> 0]]
  /\ UNCHANGED <<scContent, scCache, scEver>>
  /\ UNCHANGED nonCssVars

\* build.js:159-173: the readFile of the i-th file settles with the content
\* the file has; when it is the last one, postcss is given the contents
CssReadFile(i) ==
  /\ scCall.pc = "read"
  /\ i \in DOMAIN scCall.read /\ scCall.read[i] = 0
  /\ LET read == [scCall.read EXCEPT ![i] = scContent] IN
       scCall' = [scCall EXCEPT
                    !.read = read,
                    !.pc = IF \E j \in DOMAIN read : read[j] = 0
                             THEN "read" ELSE "process"]
  /\ UNCHANGED <<scContent, scCache, scEver, scCalls>>
  /\ UNCHANGED nonCssVars

\* build.js:163-180: postcss settles: the name is made of the hash of the
\* processed contents and writeFile is called
CssProcess ==
  /\ scCall.pc = "process"
  /\ scCall' = [scCall EXCEPT !.pc = "write"]
  /\ UNCHANGED <<scContent, scCache, scEver, scCalls>>
  /\ UNCHANGED nonCssVars

\* build.js:177-183: writeFile settles: the name is cached under the key
\* and returned
CssDone ==
  /\ scCall.pc = "write"
  /\ LET v == CssOutput(scCall.files, scCall.read)
         e == [key |-> scCall.key, val |-> v] IN
       /\ scCache' = {x \in scCache : x.key # scCall.key} \cup {e}
       /\ scEver' = scEver \cup {e}
       /\ scCall' = [scCall EXCEPT !.pc = "returned", !.ret = v]
  /\ UNCHANGED <<scContent, scCalls>>
  /\ UNCHANGED nonCssVars

\* cache.js:222-225: the list processCss returned for is given to
\* processCssWithCache, which calls fs.stat for its first file
CssWithCacheCall ==
  /\ scCall.pc = "returned" /\ scCall.kpc = "none"
  /\ scCall' = [scCall EXCEPT !.kpc = "stat"]
  /\ UNCHANGED <<scContent, scCache, scEver, scCalls>>
  /\ UNCHANGED nonCssVars

\* cache.js:224-228: the pending fs.stat settles with the mtime the file
\* has; the next file is stat'ed, or after the last one generateKey is
\* called and waits for fs.pathExists
CssStat ==
  /\ scCall.kpc = "stat"
  /\ LET mtimes == Append(scCall.mtimes, scContent) IN
       scCall' = [scCall EXCEPT
                    !.mtimes = mtimes,
                    !.kpc = IF Len(mtimes) < Len(scCall.files)
                              THEN "stat" ELSE "exists"]
  /\ UNCHANGED <<scContent, scCache, scEver, scCalls>>
  /\ UNCHANGED nonCssVars

\* cache.js:25,33-38,228: fs.pathExists settles and the key is the hash of
\* the stringified inputs
CssWithCacheKey ==
  /\ scCall.kpc = "exists"
  /\ scCall' = [scCall EXCEPT
                  !.kpc = "done",
                  !.jsonKey = CssJsonKeyOf(scCall.files,
                                           Inputs(scCall.files, scCall.mtimes))]
  /\ UNCHANGED <<scContent, scCache, scEver, scCalls>>
  /\ UNCHANGED nonCssVars

\* a style source is edited, between two calls or while one is waiting
CssEdit ==
  /\ scCalls < MaxCssCalls \/ CssInProgress
  /\ \E t \in Stamps : t > scContent /\ scContent' = t
  /\ UNCHANGED <<scCache, scEver, scCall, scCalls>>
  /\ UNCHANGED nonCssVars

\* build.js:51: an entry outlives its ttl
CssExpire ==
  /\ scCalls < MaxCssCalls \/ CssInProgress
  /\ \E e \in scCache : scCache' = scCache \ {e}
  /\ UNCHANGED <<scContent, scEver, scCall, scCalls>>
  /\ UNCHANGED nonCssVars

CssNext ==
  \/ \E files \in CssLists : CssCall(files)
  \/ \E i \in 1..2 : CssReadFile(i)
  \/ CssProcess
  \/ CssDone
  \/ CssWithCacheCall
  \/ CssStat
  \/ CssWithCacheKey
  \/ CssEdit
  \/ CssExpire

InitCss ==
  /\ GameInit
  /\ CacheInit /\ KeyInitIdle /\ BuildInit /\ SizesInitIdle /\ PMapInitIdle
  /\ NamesInitIdle /\ ValidatorInitIdle
  /\ CssInit
SpecCss == InitCss /\ [][CssNext]_vars

\* no name of the list holds a ':'
NoColon(files) ==
  \A n \in FilesOf(files) : \A i \in DOMAIN n : n[i] # ":"
\* every name of the list becomes an own key of `inputs` that
\* JSON.stringify visits in the order of insertion: none is an array index,
\* none is '__proto__'
InsertionOrdered(files) ==
  \A n \in FilesOf(files) : ~IsIndexName(n) /\ n # ProtoName
PlainNames(files) == NoColon(files) /\ InsertionOrdered(files)

\* C21 (as claimed): the key of a list differs from the key of every other
\* ordering of its files, for processCss and for processCssWithCache, and a
\* hit returns what was cached for the very list of the call.
KeyDependsOnOrder ==
  scCall.pc # "idle" =>
    /\ \A g \in Reorderings(scCall.files) : CssKeyOf(g) # scCall.key
    /\ scCall.jsonKey # NoCssCall.jsonKey =>
         \A g \in Reorderings(scCall.files) :
           CssJsonKeyOf(g, Inputs(scCall.files, scCall.mtimes))
             # scCall.jsonKey
    /\ scCall.hit => scCall.ret.of = scCall.files
\* C21 (amended): for a list whose names hold no ':', the key of processCss
\* differs from the key of every other ordering of its files and a hit never
\* returns what was cached for another ordering; for a list whose names are
\* neither array indices nor '__proto__', the key of processCssWithCache
\* differs from the key of every other ordering.
KeyDependsOnOrderOfPlainNames ==
  scCall.pc # "idle" =>
    /\ NoColon(scCall.files) =>
         /\ \A g \in Reorderings(scCall.files) : CssKeyOf(g) # scCall.key
         /\ scCall.hit => scCall.ret.of \notin Reorderings(scCall.files)
    /\ (scCall.jsonKey # NoCssCall.jsonKey /\ InsertionOrdered(scCall.files)) =>
         \A g \in Reorderings(scCall.files) :
           CssJsonKeyOf(g, Inputs(scCall.files, scCall.mtimes))
             # scCall.jsonKey
\* a list of two plain names was processed while the cache held the result
\* of its other ordering, and both keys were derived
ReorderedWitness ==
  /\ scCall.pc = "returned" /\ ~scCall.hit
  /\ Len(scCall.files) = 2 /\ PlainNames(scCall.files)
  /\ scCall.jsonKey # NoCssCall.jsonKey
  /\ \E e \in scCache : e.val.of \in Reorderings(scCall.files)

\* C22 (as claimed): whatever cache.set stored under a key, it stored the
\* same value under that key every time.
EntriesImmutable ==
  \A a, b \in scEver : a.key = b.key => a.val = b.val

\* ========================================================= the puzzle game
\* part_001:421-612, from the load of the page on; one image is uploaded.
MaxLevel == 4       \* the largest level offered (part_001:458: up to 12)
\* part_001:458-463: the options added to the level selector
Levels == 3..MaxLevel
\* the pieces the shuffle displaces and the player clicks
Movable == {1, 2, 3}
NaN == [tag |-> "NaN", val |-> 0]
Number(n) == [tag |-> "number", val |-> n]
\* part_001:490: timeLeft--
Decrement(t) == IF t.tag = "number" THEN Number(t.val - 1) ELSE NaN
\* part_001:494: timeLeft <= 0, false for NaN
IsUp(t) == t.tag = "number" /\ t.val <= 0
\* part_001:521-522: the k-th piece pushed is the one of this row and column
CellOf(k, c) == <<(k - 1) \div c, (k - 1) % c>>
\* Phaser.Utils.Array.Shuffle: the permutations that leave every piece but
\* the movable ones where it is
Shuffles ==
  {f \in [Movable -> Movable] : \A a, b \in Movable : f[a] = f[b] => a = b}
\* part_001:589-593: checkWinCondition
CheckWinCondition(ps) == \A k \in DOMAIN ps : ps[k].cur = ps[k].orig

\* part_001:465-469: another level is selected
LevelChange(i) ==
  /\ ~reloading
  /\ rows' = i
  /\ cols' = i
  /\ timeLeft' = Number(i * i * 10)
  /\ UNCHANGED <<completed, pieces, selectedPiece, reloading>>
  /\ UNCHANGED nonGameVars

\* part_001:515-550,553-562: the uploaded image is split into rows x cols
\* pieces, each at its own cell; the shuffle gives piece k the cell of piece
\* f[k] and draws it there
SplitImage(f) ==
  /\ ~reloading
  /\ pieces = <<>>
  /\ pieces' = [k \in 1..(rows * cols) |->
                  LET to == CellOf(IF k \in Movable THEN f[k] ELSE k, cols) IN
                    [orig |-> CellOf(k, cols), cur |-> to, at |-> to]]
  /\ UNCHANGED <<rows, cols, timeLeft, completed, selectedPiece, reloading>>
  /\ UNCHANGED nonGameVars

\* part_001:566-585: piece g is clicked: it is selected when none is;
\* otherwise the selected piece and g exchange their current cells, the
\* selected sprite is put at tempPos, g's sprite at g's new cell, and the
\* fireworks are shown when every piece is at its original cell
Click(g) ==
  /\ ~reloading
  /\ g \in DOMAIN pieces
  /\ IF selectedPiece = 0
       THEN /\ selectedPiece' = g
            /\ UNCHANGED <<pieces, completed>>
       ELSE LET sel == selectedPiece
                tempPos == pieces[sel].cur IN
            /\ pieces' = [k \in DOMAIN pieces |->
                            IF k = g
                              THEN [pieces[k] EXCEPT !.cur = tempPos,
                                                     !.at = tempPos]
                            ELSE IF k = sel
                              THEN [pieces[k] EXCEPT !.cur = pieces[g].cur,
                                                     !.at = tempPos]
                            ELSE pieces[k]]
            /\ selectedPiece' = 0
            /\ completed' = (completed \/ CheckWinCondition(pieces'))
  /\ UNCHANGED <<rows, cols, timeLeft, reloading>>
  /\ UNCHANGED nonGameVars

\* part_001:486-501: a second has passed: unless the puzzle is completed
\* the time left is decremented, and at 0 the alert is shown and the page
\* reloads
Tick ==
  /\ ~reloading
  /\ ~completed
  /\ timeLeft' = Decrement(timeLeft)
  /\ reloading' = IsUp(timeLeft')
  /\ UNCHANGED <<rows, cols, completed, pieces, selectedPiece>>
  /\ UNCHANGED nonGameVars

\* part_001:496: location.reload(): the page is loaded anew
Reload ==
  /\ reloading
  /\ rows' = 3
  /\ cols' = 3
  /\ timeLeft' = Undefined
  /\ completed' = FALSE
  /\ pieces' = <<>>
  /\ selectedPiece' = 0
  /\ reloading' = FALSE
  /\ UNCHANGED nonGameVars

GameNext ==
  \/ \E i \in Levels : LevelChange(i)
  \/ \E f \in Shuffles : SplitImage(f)
  \/ \E g \in Movable : Click(g)
  \/ Tick
  \/ Reload

InitGame ==
  /\ CacheInit /\ KeyInitIdle /\ BuildInit /\ SizesInitIdle /\ PMapInitIdle
  /\ NamesInitIdle /\ ValidatorInitIdle /\ CssInitIdle
  /\ GameInit
SpecGame == InitGame /\ [][GameNext]_vars

\* the grid the pieces were cut for
PieceCells == {pieces[k].orig : k \in DOMAIN pieces}

\* C29 (as claimed): once the image is split, every cell of the grid is the
\* current cell of exactly one piece and has exactly one piece drawn on it,
\* and when the puzzle is completed every piece is at its original cell.
PiecesCoverGrid ==
  pieces # <<>> =>
    /\ \A c \in PieceCells :
         /\ Cardinality({k \in DOMAIN pieces : pieces[k].cur = c}) = 1
         /\ Cardinality({k \in DOMAIN pieces : pieces[k].at = c}) = 1
    /\ completed =>
         \A k \in DOMAIN pieces :
           pieces[k].cur = pieces[k].orig /\ pieces[k].at = pieces[k].orig

\* C30 (as claimed): while a puzzle is in play the time left is a number of
\* seconds, at most 10 per piece of the grid.
TimeLeftIsTenPerPiece ==
  (pieces # <<>> /\ ~completed /\ ~reloading) =>
    /\ timeLeft.tag = "number"
    /\ timeLeft.val \in 0..(rows * cols * 10)

=============================================================================
